---- MODULE Spec2Model ----
(***************************************************************************)
(* Model of the live-share-react hooks: the connection gate and the        *)
(* registration effect of the hooks (useSharedMap, useEphemeralPresence,   *)
(* useEphemeralEvent, useEphemeralState, useMediaSynchronizer), the DDS    *)
(* set-state-action registry they call, and the replicated key -> handle   *)
(* map (dynamicObjects) the registry resolves keys in; and the listener    *)
(* effect and mutators of the channel hooks (events, state, presence) over *)
(* a transport that sequences broadcasts.                                  *)
(*                                                                         *)
(* A handle is the position of its write in the sequenced log of the       *)
(* dynamicObjects map: every created instance is written exactly once, so  *)
(* the position identifies the instance. 0 stands for "undefined".         *)
(***************************************************************************)
EXTENDS Integers, Sequences, FiniteSets, Bags, TLC

\* ---------------------------------------------------------------- bounds
\* Component slots of one client.
NumComps == 2
\* Budget of environment operations (mounts, unmounts, disconnects, direct
\* registry calls) in one behaviour.
MaxOps == 4
MaxApiCalls == 3
MaxFairOps == 3

\* Two clients race for a key; each runs NumComps components.
Clients == {"c1", "c2"}
Comps == 1..NumComps
\* Registry keys of two hooks of different type with the same caller key.
Keys == {"<SharedMap>:k", "<EphemeralPresence>:k"}
NoKey == "none"

\* ---------------------------------------------- program constants
\* container.connectionState values; the hooks test "=== 2". A container
\* that is not Connected is catching up with the sequenced log.
Connected == 2
CatchingUp == Connected - 1

VARIABLES
    conn,          \* conn[c]: connectionState of client c's container
    log,           \* sequenced writes to dynamicObjects: [key, writer, by, connAt, saw]
    applied,       \* applied[c]: number of log entries applied to c's replica
    mounted,       \* mounted[c][i]: component i of client c is mounted
    keyOf,         \* keyOf[c][i]: the _uniqueKey of the mounted hook
    connListener,  \* connListener[c]: components whose registerDDS listens to "connected"
    regs,          \* regs[c][k][i]: active subscriptions of consumer i on key k
    listening,     \* listening[c][k]: the registry listens to changes of key k
    dds,           \* dds[c][i]: the hook's stateful object (sharedMap, presence, ...)
    cbs,           \* cbs[c][i]: handles passed to the consumer's setter since it mounted
    pending,       \* pending[c]: bag of creations in flight [key, by, connAt, saw]
    regCall,       \* history: regCall[c][i] = connectionState at the hook's registerDDS call
    registered,    \* history: registered[c][i] = registerDDS calls of the component since it mounted
    leftWaiting,   \* history: leftWaiting[c] = a component of c unmounted while waiting for "connected"
    calls,         \* history: calls[c][k][i] = register calls for the pair since its last unregister
    tornAt,        \* history: tornAt[c][k] = handle c's replica held when the key was last torn down
    ops,           \* environment operations used so far
    role,          \* role[c]: the client's meeting role
    inst,          \* inst[c][t]: the client's channel object of type t
    listeningRef,  \* listeningRef[c][t]: the hook's listener is attached
    wire,          \* broadcasts in the transport's sequence order
    got,           \* got[c]: broadcasts delivered to client c
    allEvents,     \* allEvents[c]: the event hook's received events
    latestEvent,   \* latestEvent[c]: the event hook's latestEvent state
    heard,         \* history: broadcasts the event hook's listener was called with since mount
    current,       \* current[c]: the state hook's current state
    allUsers,      \* allUsers[c]: the presence hook's roster
    sends,         \* mutator calls made so far
    rejected,      \* history: mutator calls dropped by the role check
    hooked,        \* hooked[c][t]: the component with the hook of type t is mounted
    hookArgs,      \* hookArgs[c][t]: the hook's allowedRoles and initialState arguments
    gen,           \* gen[c][t]: the instance c's replica maps the hook's key to
    refused,       \* history: mutator calls the hook refused before start
    synchronizer,  \* synchronizer[c]: the media hook's mediaSynchronizer is set
    viewOnly,      \* viewOnly[c]: the synchronizer's viewOnly flag
    suspension,    \* suspension[c]: the media hook's suspension state is defined
    active,        \* active[c]: the coordinator of client c has an active suspension
    player,        \* player[c]: the command the local player was last put to
    commands,      \* group commands in the transport's sequence order
    seen,          \* seen[c]: group commands delivered to client c
    endCalled,     \* history: endSuspension() was called since the suspension began
    provider,      \* the mounted context provider: its kind and its props
    results,       \* the provider's results state is defined (container, services)
    joinError,     \* the provider's joinError state
    startedRef,    \* the provider's startedRef
    promises,      \* promises returned by getContainer, createContainer, joinContainer
    ddsEffect,     \* a hook's registration effect has passed its container test
    seeded,        \* history: seeded[c] is the bag of onFirstCreate runs on client c
    mapHook,       \* mapHook[c]: client c's component with useSharedMap is mounted
    initialData,   \* initialData[c]: the hook's initialData argument
    sharedMap,     \* sharedMap[c]: the hook's sharedMap state, 0 when undefined
    mapListening,  \* mapListening[c]: the instances the hook's valueChanged listener is on
    map,           \* map[c]: the hook's map state
    mapOps,        \* set and delete operations on the SharedMap instances, sequenced
    mapGot,        \* mapGot[c]: sequenced operations applied to client c's replicas
    created,       \* created[h]: the client that created SharedMap instance h of the key
    mapCalls,      \* mapCalls[c]: setEntry and deleteEntry calls of client c so far
    named,         \* named[c]: the hook client c mounted, its uniqueKey argument, its registry key
    msHook,        \* msHook[c]: the mounted media hook's arguments
    msHandle,      \* msHandle[c]: the media hook's mediaSession state, 0 when undefined
    msAttached,    \* msAttached[c]: the instance the effect's cleanup is bound to, 0 when none
    msSync,        \* msSync[c]: the instance the hook's mediaSynchronizer state was made on, 0 when undefined
    msSession,     \* msSession[c][g]: isStarted, other consumers' listeners, live synchronizers of instance g
    msStarts,      \* history: msStarts[c] = the hook's mediaSession.start calls
    msTracks,      \* history: msTracks[c] = the setTrack calls of the hook's effect
    msLast,        \* msLast[c]: the hook's last mutator call and how it ended
    msSent         \* history: msSent[c] = commands the hook's mutators handed to a synchronizer

regVars == <<conn, log, applied, mounted, keyOf, connListener, regs, listening,
             dds, cbs, pending, regCall, registered, leftWaiting, calls, tornAt,
             seeded>>
chanVars == <<role, inst, listeningRef, wire, got, allEvents, latestEvent, heard,
              current, allUsers,
              sends, rejected, hooked, hookArgs, gen, refused>>
mediaVars == <<synchronizer, viewOnly, suspension, active, player, commands,
               seen, endCalled>>
provVars == <<provider, results, joinError, startedRef, promises, ddsEffect>>
mapVars == <<mapHook, initialData, sharedMap, mapListening, map, mapOps, mapGot,
             created, mapCalls>>
keyVars == <<named>>
msVars == <<msHook, msHandle, msAttached, msSync, msSession, msStarts, msTracks,
           msLast, msSent>>
vars == <<regVars, chanVars, mediaVars, provVars, mapVars, keyVars, msVars, ops>>

\* regCall of a hook whose registerDDS has not run.
NoCall == Connected - 2

\* ------------------------------------------------- replicated map
RECURSIVE LastWrite(_, _, _)
\* Last writer in sequence order wins: the handle mapped to k after the
\* first n writes, 0 when none of them is for k.
LastWrite(lg, n, k) ==
    IF n = 0 THEN 0
    ELSE IF lg[n].key = k THEN n
    ELSE LastWrite(lg, n - 1, k)

\* dynamicObjectMap.get(k) on client c's replica.
View(c, k) == LastWrite(log, applied[c], k)

\* The entry of the fully sequenced map.
Canonical(k) == LastWrite(log, Len(log), k)

\* ------------------------------------------------- registry
Registered(c, i) == \E k \in Keys : regs[c][k][i] > 0

\* register(key, consumerId, callback): one subscription per pair.
AddRegBag(n) == n + 1
AddReg(n) == IF n = 0 THEN 1 ELSE n

\* resolve step 2: the handle the replica maps the key to, now.
ResolveCached(c, k) == IF tornAt[c][k] > 0 THEN tornAt[c][k] ELSE View(c, k)
Resolve(c, k) == View(c, k)

\* resolve step 3: create only when the lookup found no entry.
MustCreateDefers(c, k) ==
    /\ Resolve(c, k) = 0
    /\ \A d \in Clients \ {c} : \A p \in BagToSet(pending[d]) : p.key # k
MustCreate(c, k) == Resolve(c, k) = 0

\* unregister(key, consumerId): the pair's subscription is dropped.
RemoveReg(n) == 0

\* The listener on a key goes when its last registration goes.
KeepListening(r, k, was) == was /\ \E j \in Comps : r[k][j] > 0

\* The listener passes a changed handle to every subscription of the key.
NotifyFirst(c, k, i) ==
    IF listening[c][k] /\ i = 1 THEN regs[c][k][i] ELSE 0
Notify(c, k, i) == IF listening[c][k] THEN regs[c][k][i] ELSE 0

RECURSIVE Repeat(_, _, _)
\* s followed by n copies of h: n invocations of a setter.
Repeat(s, h, n) == IF n = 0 THEN s ELSE Repeat(Append(s, h), h, n - 1)

\* registerDDSSetStateAction called for every consumer of S, consumer i
\* with key kf[i], while the container is in state cs.
RegsAfter(c, S, kf) ==
    [k \in Keys |-> [i \in Comps |->
        IF i \in S /\ kf[i] = k THEN AddReg(regs[c][k][i]) ELSE regs[c][k][i]]]

CallsAfter(c, S, kf) ==
    [k \in Keys |-> [i \in Comps |->
        IF i \in S /\ kf[i] = k THEN calls[c][k][i] + 1 ELSE calls[c][k][i]]]

ListeningAfter(c, S, kf) ==
    [k \in Keys |-> listening[c][k] \/ \E i \in S : kf[i] = k]

DdsAfter(c, S, kf) ==
    [i \in Comps |->
        IF i \in S /\ ~MustCreate(c, kf[i]) THEN Resolve(c, kf[i]) ELSE dds[c][i]]

CbsAfter(c, S, kf) ==
    [i \in Comps |->
        IF i \in S /\ ~MustCreate(c, kf[i])
        THEN Append(cbs[c][i], Resolve(c, kf[i])) ELSE cbs[c][i]]

PendingAfter(c, S, kf, cs) ==
    LET new == {[key |-> kf[i], by |-> i, connAt |-> cs, saw |-> View(c, kf[i])] :
                    i \in {j \in S : MustCreate(c, kf[j])}}
    IN pending[c] (+) SetToBag(new)

\* resolve step 3: onFirstCreate seeds the instance the consumer's call
\* creates, and runs on no other.
OnFirstCreateAlways(c, k) == TRUE
OnFirstCreateRuns(c, k) == MustCreate(c, k)

SeededAfter(c, S, kf) ==
    LET new == {[key |-> kf[i], by |-> i] :
                    i \in {j \in S : OnFirstCreateRuns(c, kf[j])}}
    IN seeded[c] (+) SetToBag(new)

\* unregisterDDSSetStateAction(k, i) on client c.
UnregisterRegs(c, k, i) == [regs[c] EXCEPT ![k][i] = RemoveReg(@)]

\* ------------------------------------------------- hooks
\* "if (container.connectionState === 2)" of the registration effect.
GateOpenAlways(c) == TRUE
GateOpenInverted(c) == conn[c] # Connected
GateOpen(c) == conn[c] = Connected

\* registerDDS ends with container.off("connected", registerDDS): the
\* listeners left once the waiting ones have run.
ListenersKept(c) == connListener[c]
ListenersAfterFire(c) == {}

\* The effect's cleanup calls unregisterDDSSetStateAction(_uniqueKey, componentId).
CleanupRegsForgot(c, i) == regs[c]
CleanupRegs(c, i) == UnregisterRegs(c, keyOf[c][i], i)

\* ------------------------------------------------- ephemeral channels
\* The type tags of the three channel hooks.
EventKind == "<EphemeralEvent>"
StateKind == "<EphemeralState>"
PresenceKind == "<EphemeralPresence>"
Kinds == {EventKind, StateKind, PresenceKind}
Roles == {"Organizer", "Attendee"}
NoRole == "unknown"
\* allowedRoles arguments a hook is given: none, or organizers only.
RoleArgs == {{}, {"Organizer"}}
\* Mutator calls (sendEvent, changeState, updatePresence) in one behaviour.
MaxSends == 2
\* Mounts, unmounts and handle switches of channel hooks in one behaviour.
MaxHookOps == 3
\* The same, where the three hook types run together or delivery is fair.
MaxChannelOps == 2
\* updatePresence calls in one behaviour of the presence hook.
MaxPresenceSends == 1
\* Mounts, viewOnly changes, begins and ends of suspensions of the media hook
\* in one behaviour.
MaxMediaOps == 4
\* Group commands (play, pause, seekTo, setTrack) in one behaviour.
MaxCommands == 2
\* Calls of getContainer, createContainer and joinContainer in one behaviour.
MaxPromises == 2
\* Mounts and unmounts of the component with useSharedMap in one behaviour.
MaxMapOps == 2
\* setEntry and deleteEntry calls in one behaviour.
MaxMapCalls == 1
\* Pieces of a caller's key.
MaxKeyLen == 2
\* A payload as the hooks keep it: sender, serial number, state name.
NoRecord == [by |-> "none", val |-> 0, st |-> "-"]
\* The initialState/initialData arguments of the state hook: none or a seed.
Seed == [by |-> "initialState", val |-> 0, st |-> "WAITING"]
SeedArgs == {NoRecord, Seed}
NoArgs == [roles |-> {}, seed |-> NoRecord]
\* A channel object that has not been started.
\* useState() of latestEvent: undefined.
NoEvent == [by |-> "undefined", val |-> 0, st |-> "-", local |-> FALSE]

FreshInst ==
    [isInitialized |-> FALSE, allowedRoles |-> {}, startArg |-> {},
     seed |-> NoRecord]

\* The instance every replica maps a key to before any race is resolved.
FirstInstance == 1

ChannelIdle ==
    /\ role = [c \in Clients |-> NoRole]
    /\ inst = [c \in Clients |-> [t \in Kinds |-> FreshInst]]
    /\ listeningRef = [c \in Clients |-> [t \in Kinds |-> FALSE]]
    /\ wire = <<>>
    /\ got = [c \in Clients |-> 0]
    /\ allEvents = [c \in Clients |-> <<>>]
    /\ latestEvent = [c \in Clients |-> NoEvent]
    /\ heard = [c \in Clients |-> <<>>]
    /\ current = [c \in Clients |-> NoRecord]
    /\ allUsers = [c \in Clients |-> <<>>]
    /\ sends = 0
    /\ rejected = {}
    /\ hooked = [c \in Clients |-> [t \in Kinds |-> FALSE]]
    /\ hookArgs = [c \in Clients |-> [t \in Kinds |-> NoArgs]]
    /\ gen = [c \in Clients |-> [t \in Kinds |-> FirstInstance]]
    /\ refused = {}

\* No command has been sent; a local player has not been put to anything.
NoCommand == [by |-> "none", cmd |-> "-", val |-> 0]

\* The entries of a map over the caller's keys; 0 stands for no entry.
MapKeys == {"x"}
NoData == [k \in MapKeys |-> 0]

\* No component with useSharedMap is mounted and no SharedMap exists.
MapIdle ==
    /\ mapHook = [c \in Clients |-> FALSE]
    /\ initialData = [c \in Clients |-> NoData]
    /\ sharedMap = [c \in Clients |-> 0]
    /\ mapListening = [c \in Clients |-> {}]
    /\ map = [c \in Clients |-> NoData]
    /\ mapOps = <<>>
    /\ mapGot = [c \in Clients |-> 0]
    /\ created = <<>>
    /\ mapCalls = [c \in Clients |-> 0]

\* A string is the sequence of its pieces; no hook has formed a registry key.
NoName == [hook |-> "none", given |-> FALSE, arg |-> <<>>, key |-> <<>>]
NothingNamed == named = [c \in Clients |-> NoName]

\* The instances of the media session's key a client can hold: the first
\* one and the one a race leaves in its place.
SessionInsts == {1, 2}
\* No media hook is mounted, no session instance is started.
NoHook == [mounted |-> FALSE, given |-> FALSE, roles |-> {}, track |-> "null",
           player |-> FALSE]
NoMutatorCall == [fn |-> "none", track |-> "null", outcome |-> "none"]
FreshSession == [started |-> FALSE, listeners |-> {}, live |-> 0]
MsIdle ==
    /\ msHook = [c \in Clients |-> NoHook]
    /\ msHandle = [c \in Clients |-> 0]
    /\ msAttached = [c \in Clients |-> 0]
    /\ msSync = [c \in Clients |-> 0]
    /\ msSession = [c \in Clients |-> [g \in SessionInsts |-> FreshSession]]
    /\ msStarts = [c \in Clients |-> <<>>]
    /\ msTracks = [c \in Clients |-> <<>>]
    /\ msLast = [c \in Clients |-> NoMutatorCall]
    /\ msSent = [c \in Clients |-> 0]

\* No provider is mounted; joinError is undefined.
NoProps == [containerId |-> FALSE, joinOnLoad |-> FALSE, createOnLoad |-> FALSE]
NoProvider == [kind |-> "none", props |-> NoProps]
NoError == [id |-> 0, src |-> "none", isError |-> FALSE]

ProviderIdle ==
    /\ provider = NoProvider
    /\ results = FALSE
    /\ joinError = NoError
    /\ startedRef = FALSE
    /\ promises = <<>>
    /\ ddsEffect = FALSE

\* No media hook is mounted.
MediaIdle ==
    /\ synchronizer = [c \in Clients |-> FALSE]
    /\ viewOnly = [c \in Clients |-> FALSE]
    /\ suspension = [c \in Clients |-> FALSE]
    /\ active = [c \in Clients |-> FALSE]
    /\ player = [c \in Clients |-> NoCommand]
    /\ commands = <<>>
    /\ seen = [c \in Clients |-> 0]
    /\ endCalled = [c \in Clients |-> FALSE]

NothingMounted ==
    /\ ChannelIdle
    /\ MediaIdle
    /\ ProviderIdle
    /\ MapIdle
    /\ NothingNamed
    /\ MsIdle
    /\ log = <<>>
    /\ applied = [c \in Clients |-> 0]
    /\ mounted = [c \in Clients |-> [i \in Comps |-> FALSE]]
    /\ keyOf = [c \in Clients |-> [i \in Comps |-> NoKey]]
    /\ connListener = [c \in Clients |-> {}]
    /\ regs = [c \in Clients |-> [k \in Keys |-> [i \in Comps |-> 0]]]
    /\ listening = [c \in Clients |-> [k \in Keys |-> FALSE]]
    /\ dds = [c \in Clients |-> [i \in Comps |-> 0]]
    /\ cbs = [c \in Clients |-> [i \in Comps |-> <<>>]]
    /\ pending = [c \in Clients |-> EmptyBag]
    /\ regCall = [c \in Clients |-> [i \in Comps |-> NoCall]]
    /\ registered = [c \in Clients |-> [i \in Comps |-> 0]]
    /\ leftWaiting = [c \in Clients |-> FALSE]
    /\ calls = [c \in Clients |-> [k \in Keys |-> [i \in Comps |-> 0]]]
    /\ tornAt = [c \in Clients |-> [k \in Keys |-> 0]]
    /\ seeded = [c \in Clients |-> EmptyBag]
    /\ ops = 0

\* A container that has just been obtained is still catching up.
Init ==
    /\ conn = [c \in Clients |-> CatchingUp]
    /\ NothingMounted

\* registerDDSSetStateAction for the consumers S of client c.
RegisterAll(c, S, kf, cs) ==
    /\ regs' = [regs EXCEPT ![c] = RegsAfter(c, S, kf)]
    /\ calls' = [calls EXCEPT ![c] = CallsAfter(c, S, kf)]
    /\ listening' = [listening EXCEPT ![c] = ListeningAfter(c, S, kf)]
    /\ dds' = [dds EXCEPT ![c] = DdsAfter(c, S, kf)]
    /\ cbs' = [cbs EXCEPT ![c] = CbsAfter(c, S, kf)]
    /\ pending' = [pending EXCEPT ![c] = PendingAfter(c, S, kf, cs)]
    /\ seeded' = [seeded EXCEPT ![c] = SeededAfter(c, S, kf)]

\* unregisterDDSSetStateAction(k, i), which leaves the registrations r.
UnregisterAll(c, k, i, r) ==
    /\ regs' = [regs EXCEPT ![c] = r]
    /\ calls' = [calls EXCEPT ![c][k][i] = 0]
    /\ listening' = [listening EXCEPT ![c][k] = KeepListening(r, k, @)]
    /\ tornAt' = [tornAt EXCEPT ![c][k] =
                    IF listening[c][k] /\ ~KeepListening(r, k, listening[c][k])
                    THEN View(c, k) ELSE @]

\* The registration effect of a hook that mounts with key k: register now
\* when the container is connected, else wait for "connected". Slots are
\* interchangeable, so a mount takes the lowest free one.
Mount(c, i, k) ==
    /\ ops < MaxOps
    /\ ~mounted[c][i]
    /\ \A j \in Comps : j < i => mounted[c][j]
    /\ ops' = ops + 1
    /\ mounted' = [mounted EXCEPT ![c][i] = TRUE]
    /\ keyOf' = [keyOf EXCEPT ![c][i] = k]
    /\ IF GateOpen(c)
       THEN /\ RegisterAll(c, {i}, keyOf'[c], conn[c])
            /\ regCall' = [regCall EXCEPT ![c][i] = conn[c]]
            /\ registered' = [registered EXCEPT ![c][i] = @ + 1]
            /\ UNCHANGED connListener
       ELSE /\ connListener' = [connListener EXCEPT ![c] = @ \cup {i}]
            /\ UNCHANGED <<regs, calls, listening, dds, cbs, pending, regCall,
                           registered, seeded>>
    /\ UNCHANGED <<conn, log, applied, tornAt, leftWaiting>>
    /\ UNCHANGED <<chanVars, mediaVars, provVars, mapVars, keyVars, msVars>>

\* The effect's cleanup: unregister and drop the "connected" listener; the
\* component and its state are gone.
Unmount(c, i) ==
    /\ ops < MaxOps
    /\ mounted[c][i]
    /\ ops' = ops + 1
    /\ mounted' = [mounted EXCEPT ![c][i] = FALSE]
    /\ UnregisterAll(c, keyOf[c][i], i, CleanupRegs(c, i))
    /\ connListener' = [connListener EXCEPT ![c] = @ \ {i}]
    /\ keyOf' = [keyOf EXCEPT ![c][i] = NoKey]
    /\ dds' = [dds EXCEPT ![c][i] = 0]
    /\ cbs' = [cbs EXCEPT ![c][i] = <<>>]
    /\ regCall' = [regCall EXCEPT ![c][i] = NoCall]
    /\ registered' = [registered EXCEPT ![c][i] = 0]
    /\ leftWaiting' = [leftWaiting EXCEPT ![c] = @ \/ i \in connListener[c]]
    /\ UNCHANGED <<conn, log, applied, pending, seeded>>
    /\ UNCHANGED <<chanVars, mediaVars, provVars, mapVars, keyVars, msVars>>

\* The container reaches Connected (it has caught up) and emits "connected":
\* every waiting registerDDS runs and removes itself.
ConnectedEvent(c) ==
    /\ conn[c] = CatchingUp
    /\ applied[c] = Len(log)
    /\ conn' = [conn EXCEPT ![c] = Connected]
    /\ RegisterAll(c, connListener[c], keyOf[c], Connected)
    /\ regCall' = [regCall EXCEPT ![c] =
                      [i \in Comps |-> IF i \in connListener[c]
                                       THEN Connected ELSE @[i]]]
    /\ registered' = [registered EXCEPT ![c] =
                         [i \in Comps |-> IF i \in connListener[c]
                                          THEN @[i] + 1 ELSE @[i]]]
    /\ connListener' = [connListener EXCEPT ![c] = ListenersAfterFire(c)]
    /\ UNCHANGED <<log, applied, mounted, keyOf, tornAt, leftWaiting, ops>>
    /\ UNCHANGED <<chanVars, mediaVars, provVars, mapVars, keyVars, msVars>>

\* The connection drops; the container catches up again before it is
\* Connected once more.
Disconnect(c) ==
    /\ ops < MaxOps
    /\ conn[c] = Connected
    /\ ops' = ops + 1
    /\ conn' = [conn EXCEPT ![c] = CatchingUp]
    /\ UNCHANGED <<log, applied, mounted, keyOf, connListener, regs, listening,
                   dds, cbs, pending, regCall, registered, leftWaiting, calls,
                   tornAt, seeded>>
    /\ UNCHANGED <<chanVars, mediaVars, provVars, mapVars, keyVars, msVars>>

\* container.create(objectClass) resolves: the new instance's handle is
\* written under the key and the write is sequenced.
CompleteCreate(c, p) ==
    /\ conn[c] = Connected
    /\ BagIn(p, pending[c])
    /\ pending' = [pending EXCEPT ![c] = @ (-) SetToBag({p})]
    /\ log' = Append(log, [key |-> p.key, writer |-> c, by |-> p.by,
                           connAt |-> p.connAt, saw |-> p.saw])
    /\ UNCHANGED <<conn, applied, mounted, keyOf, connListener, regs, listening,
                   dds, cbs, regCall, registered, leftWaiting, calls, tornAt,
                   seeded, ops>>
    /\ UNCHANGED <<chanVars, mediaVars, provVars, mapVars, keyVars, msVars>>

\* The next sequenced write reaches client c: its replica changes and the
\* registry's listener passes the new handle to the subscriptions of the key.
Deliver(c) ==
    /\ applied[c] < Len(log)
    /\ applied' = [applied EXCEPT ![c] = @ + 1]
    /\ LET h == applied[c] + 1
           k == log[h].key
       IN /\ dds' = [dds EXCEPT ![c] =
                        [i \in Comps |-> IF Notify(c, k, i) > 0 THEN h ELSE @[i]]]
          /\ cbs' = [cbs EXCEPT ![c] =
                        [i \in Comps |-> Repeat(@[i], h, Notify(c, k, i))]]
    /\ UNCHANGED <<conn, log, mounted, keyOf, connListener, regs, listening,
                   pending, regCall, registered, leftWaiting, calls, tornAt,
                   seeded, ops>>
    /\ UNCHANGED <<chanVars, mediaVars, provVars, mapVars, keyVars, msVars>>

Next ==
    \/ \E c \in Clients, i \in Comps, k \in Keys : Mount(c, i, k)
    \/ \E c \in Clients, i \in Comps : Unmount(c, i)
    \/ \E c \in Clients : ConnectedEvent(c)
    \/ \E c \in Clients : Disconnect(c)
    \/ \E c \in Clients : \E p \in BagToSet(pending[c]) : CompleteCreate(c, p)
    \/ \E c \in Clients : Deliver(c)

Spec == Init /\ [][Next]_vars

\* The transport keeps delivering, creations complete and a container that
\* has caught up becomes Connected.
Fairness ==
    \A c \in Clients :
        /\ WF_vars(ConnectedEvent(c))
        /\ WF_vars(Deliver(c))
        /\ WF_vars(\E p \in BagToSet(pending[c]) : CompleteCreate(c, p))

\* The fair behaviours are examined over a shorter run of environment steps.
NextFair == Next /\ ops' <= MaxFairOps

FairSpec == Init /\ [][NextFair]_vars /\ Fairness

\* One client, whose own steps and whose transport make progress; nothing
\* is assumed about the steps of the other clients, which may never come.
Self == CHOOSE c \in Clients : TRUE

FairnessOf(c) ==
    /\ WF_vars(ConnectedEvent(c))
    /\ WF_vars(Deliver(c))
    /\ WF_vars(\E p \in BagToSet(pending[c]) : CompleteCreate(c, p))

FairSelf == Init /\ [][NextFair]_vars /\ FairnessOf(Self)

\* The dependencies of the registration effect: [container, initialData] in
\* useSharedMap, [container] in the other hooks.
HasInitialData(k) == k = "<SharedMap>:k"

\* A mounted useSharedMap component renders with another initialData object:
\* the effect's cleanup runs (unregister, drop the "connected" listener) and
\* the effect runs again (register now when connected, else wait). The
\* component's state stays.
InitialDataChanged(c, i) ==
    /\ ops < MaxOps
    /\ mounted[c][i]
    /\ HasInitialData(keyOf[c][i])
    /\ ops' = ops + 1
    /\ LET k == keyOf[c][i]
           r == CleanupRegs(c, i)
       IN /\ tornAt' = [tornAt EXCEPT ![c][k] =
                          IF listening[c][k] /\ ~KeepListening(r, k, listening[c][k])
                          THEN View(c, k) ELSE @]
          /\ IF GateOpen(c)
             THEN /\ regs' = [regs EXCEPT ![c] = [r EXCEPT ![k][i] = AddReg(@)]]
                  /\ calls' = [calls EXCEPT ![c][k][i] = 1]
                  /\ listening' = [listening EXCEPT ![c][k] = TRUE]
                  /\ dds' = [dds EXCEPT ![c] = DdsAfter(c, {i}, keyOf[c])]
                  /\ cbs' = [cbs EXCEPT ![c] = CbsAfter(c, {i}, keyOf[c])]
                  /\ pending' = [pending EXCEPT ![c] =
                                    PendingAfter(c, {i}, keyOf[c], conn[c])]
                  /\ seeded' = [seeded EXCEPT ![c] = SeededAfter(c, {i}, keyOf[c])]
                  /\ regCall' = [regCall EXCEPT ![c][i] = conn[c]]
                  /\ registered' = [registered EXCEPT ![c][i] = @ + 1]
                  /\ connListener' = [connListener EXCEPT ![c] = @ \ {i}]
             ELSE /\ regs' = [regs EXCEPT ![c] = r]
                  /\ calls' = [calls EXCEPT ![c][k][i] = 0]
                  /\ listening' = [listening EXCEPT ![c][k] = KeepListening(r, k, @)]
                  /\ connListener' = [connListener EXCEPT ![c] = @ \cup {i}]
                  /\ UNCHANGED <<dds, cbs, pending, seeded, regCall, registered>>
    /\ UNCHANGED <<conn, log, applied, mounted, keyOf, leftWaiting>>
    /\ UNCHANGED <<chanVars, mediaVars, provVars, mapVars, keyVars, msVars>>

\* The hooks with renders that change initialData, over a shorter run.
NextRender ==
    /\ \/ Next
       \/ \E c \in Clients, i \in Comps : InitialDataChanged(c, i)
    /\ ops' <= MaxFairOps

SpecRender == Init /\ [][NextRender]_vars

\* ------------------------------------------------- the registry called directly
\* A consumer calls registerDDSSetStateAction(k, i, ...) itself, any number
\* of times, on a connected container. Consumer ids are interchangeable, so
\* a new id is the lowest one not in use.
ApiRegister(c, i, k) ==
    /\ ops < MaxApiCalls
    /\ conn[c] = Connected
    /\ \A j \in Comps : j < i => Registered(c, j)
    /\ ops' = ops + 1
    /\ RegisterAll(c, {i}, [j \in Comps |-> k], conn[c])
    /\ UNCHANGED <<conn, log, applied, mounted, keyOf, connListener, regCall,
                   registered, leftWaiting, tornAt>>
    /\ UNCHANGED <<chanVars, mediaVars, provVars, mapVars, keyVars, msVars>>

\* A consumer calls unregisterDDSSetStateAction(k, i) itself.
ApiUnregister(c, i, k) ==
    /\ ops < MaxApiCalls
    /\ regs[c][k][i] > 0
    /\ ops' = ops + 1
    /\ UnregisterAll(c, k, i, UnregisterRegs(c, k, i))
    /\ UNCHANGED <<conn, log, applied, mounted, keyOf, connListener, dds, cbs,
                   pending, regCall, registered, leftWaiting, seeded>>
    /\ UNCHANGED <<chanVars, mediaVars, provVars, mapVars, keyVars, msVars>>

\* The registry is handed containers that have joined and are connected.
InitApi ==
    /\ conn = [c \in Clients |-> Connected]
    /\ NothingMounted

NextApi ==
    \/ \E c \in Clients, i \in Comps, k \in Keys : ApiRegister(c, i, k)
    \/ \E c \in Clients, i \in Comps, k \in Keys : ApiUnregister(c, i, k)
    \/ \E c \in Clients : \E p \in BagToSet(pending[c]) : CompleteCreate(c, p)
    \/ \E c \in Clients : Deliver(c)

SpecApi == InitApi /\ [][NextApi]_vars

\* ------------------------------------------------- channel hooks
\* The payload of a broadcast as a hook records it.
Rec(m) == [by |-> m.by, val |-> m.val, st |-> m.st]

RECURSIVE LastBroadcast(_, _, _, _)
\* The payload of the latest broadcast of type t on instance g among the
\* first n.
LastBroadcast(w, n, t, g) ==
    IF n = 0 THEN NoRecord
    ELSE IF w[n].kind = t /\ w[n].on = g THEN Rec(w[n])
    ELSE LastBroadcast(w, n - 1, t, g)

RECURSIVE LastBy(_, _, _, _)
\* The latest presence record of user u on instance g among the first n
\* broadcasts.
LastBy(w, n, u, g) ==
    IF n = 0 THEN NoRecord
    ELSE IF w[n].kind = PresenceKind /\ w[n].by = u /\ w[n].on = g
         THEN Rec(w[n])
    ELSE LastBy(w, n - 1, u, g)

\* A received presence record overwrites the user's record, or is added.
UpsertDropOffline(r, rec) ==
    IF rec.st = "offline"
    THEN SelectSeq(r, LAMBDA x : x.by # rec.by)
    ELSE IF \E i \in 1..Len(r) : r[i].by = rec.by
         THEN [i \in 1..Len(r) |-> IF r[i].by = rec.by THEN rec ELSE r[i]]
         ELSE Append(r, rec)
UpsertMerge(r, rec) ==
    IF \E i \in 1..Len(r) : r[i].by = rec.by
    THEN [i \in 1..Len(r) |->
            IF r[i].by = rec.by THEN [rec EXCEPT !.st = r[i].st] ELSE r[i]]
    ELSE Append(r, rec)
Upsert(r, rec) ==
    IF \E i \in 1..Len(r) : r[i].by = rec.by
    THEN [i \in 1..Len(r) |-> IF r[i].by = rec.by THEN rec ELSE r[i]]
    ELSE Append(r, rec)

RECURSIVE RosterList(_, _, _, _)
\* The users client c's presence object of instance g holds after the first
\* n broadcasts, as forEach yields them.
RosterList(c, w, n, g) ==
    IF n = 0 THEN <<>>
    ELSE IF w[n].kind = PresenceKind /\ w[n].on = g
         THEN Upsert(RosterList(c, w, n - 1, g),
                     [by |-> w[n].by, val |-> w[n].val, st |-> w[n].st,
                      isLocalUser |-> w[n].by = c])
    ELSE RosterList(c, w, n - 1, g)

\* The state a state machine of instance g holds at client c: the latest
\* transition it received, else the seed it was started with.
DdsStateSeedFirst(c, g, sd) ==
    IF sd # NoRecord THEN sd ELSE LastBroadcast(wire, got[c], StateKind, g)
DdsState(c, g, sd) ==
    IF LastBroadcast(wire, got[c], StateKind, g) # NoRecord
    THEN LastBroadcast(wire, got[c], StateKind, g)
    ELSE sd

\* What the hook hands to initialize/start as allowedRoles: the event and
\* state hooks pass their argument, the presence hook passes none.
StartRolesNone(t, ar) == {}
StartRoles(t, ar) == IF t = PresenceKind THEN {} ELSE ar

\* The channel's role check on an outbound action.
RoleAllowed(c, t) ==
    inst[c][t].allowedRoles = {} \/ role[c] \in inst[c][t].allowedRoles

\* The mutator's guards: the hook's object is resolved and started.
HookCanSendAlways(c, t) == TRUE
HookCanSend(c, t) == listeningRef[c][t] /\ inst[c][t].isInitialized

\* The state name a mutator of the hook of type t sends.
PayloadState(t) ==
    IF t = PresenceKind THEN "offline"
    ELSE IF t = StateKind THEN "START" ELSE "-"

\* The hook's otherUsers: the records of allUsers that are not the local
\* user's.
OtherUsersAll(c) == allUsers[c]
OtherUsers(c) == SelectSeq(allUsers[c], LAMBDA u : ~u.isLocalUser)

\* The hook returns no local user.
NoUser == [by |-> "undefined", val |-> 0, st |-> "-", isLocalUser |-> FALSE]

\* The hook's localUser: the first record of allUsers that is the local
\* user's, if any.
LocalUser(c) ==
    IF \E i \in 1..Len(allUsers[c]) : allUsers[c][i].isLocalUser
    THEN allUsers[c][CHOOSE i \in 1..Len(allUsers[c]) :
                        /\ allUsers[c][i].isLocalUser
                        /\ \A j \in 1..(i - 1) : ~allUsers[c][j].isLocalUser]
    ELSE NoUser

\* The meeting tells the client its role.
AssignRole(c, r) ==
    /\ role[c] = NoRole
    /\ role' = [role EXCEPT ![c] = r]
    /\ UNCHANGED <<inst, listeningRef, wire, got, allEvents, latestEvent, heard,
                   current, allUsers,
                   sends, rejected, hooked, hookArgs, gen, refused, regVars,
                   mediaVars, provVars, mapVars, keyVars, msVars, ops>>

\* What useState gives the state hook on its first render.
FirstRender(sd) == sd

\* A component with the hook of type t mounts: its object is not resolved
\* yet and its state is the initial one.
HookMount(c, t, ar, sd) ==
    /\ ops < MaxHookOps
    /\ ~hooked[c][t]
    /\ t = PresenceKind => ar = {}
    /\ t # StateKind => sd = NoRecord
    /\ ops' = ops + 1
    /\ hooked' = [hooked EXCEPT ![c][t] = TRUE]
    /\ hookArgs' = [hookArgs EXCEPT ![c][t] = [roles |-> ar, seed |-> sd]]
    /\ current' = IF t = StateKind
                  THEN [current EXCEPT ![c] = FirstRender(sd)] ELSE current
    /\ UNCHANGED <<role, inst, listeningRef, wire, got, allEvents, latestEvent,
                   heard, allUsers,
                   sends, rejected, gen, refused, regVars,
                   mediaVars, provVars, mapVars, keyVars, msVars>>

\* The object the effect starts.
StartedInst(c, t) ==
    [isInitialized |-> TRUE,
     allowedRoles |-> StartRoles(t, hookArgs[c][t].roles),
     startArg |-> hookArgs[c][t].roles,
     seed |-> hookArgs[c][t].seed]

\* The start guard of the effect: start only an object that is not started.
StartNeededAlways(fresh) == TRUE
StartNeeded(fresh) == fresh

\* The record presence.start publishes for the local user: the default
\* initialPresenceState and no data yet.
Announcement(c, g) ==
    [kind |-> PresenceKind, by |-> c, val |-> 0, st |-> "online", on |-> g]

\* The transport after presence.start(userId, initialData,
\* initialPresenceState).
StartSilent(c, g) == wire
StartPublishes(c, g) == Append(wire, Announcement(c, g))

\* The presence hook's roster after its effect: an object that was already
\* started is read at once (onPresenceChanged), a fresh one is only started.
JoinerRosterWaits(c, g, fresh) == allUsers[c]
JoinerRoster(c, g, fresh) ==
    IF fresh THEN allUsers[c] ELSE RosterList(c, wire, got[c], g)

\* The listener effect on instance g, which is fresh (not started) or not:
\* start the object when it is not started, then refresh the hook's state
\* from the object (state hook), or refresh it only when the object was
\* already started (presence hook).
EffectRun(c, t, g, fresh) ==
    /\ inst' = IF StartNeeded(fresh) THEN [inst EXCEPT ![c][t] = StartedInst(c, t)]
               ELSE inst
    /\ wire' = IF t = PresenceKind /\ StartNeeded(fresh)
               THEN StartPublishes(c, g)
               ELSE wire
    /\ current' = IF t = StateKind /\ DdsState(c, g, inst'[c][t].seed) # NoRecord
                  THEN [current EXCEPT ![c] = DdsState(c, g, inst'[c][t].seed)]
                  ELSE current
    /\ allUsers' = IF t = PresenceKind
                   THEN [allUsers EXCEPT ![c] = JoinerRoster(c, g, fresh)]
                   ELSE allUsers

\* The hook's object is resolved and the listener effect runs.
Attach(c, t) ==
    /\ hooked[c][t]
    /\ ~listeningRef[c][t]
    /\ listeningRef' = [listeningRef EXCEPT ![c][t] = TRUE]
    /\ EffectRun(c, t, gen[c][t], ~inst[c][t].isInitialized)
    /\ UNCHANGED <<role, got, allEvents, latestEvent, heard, sends, rejected,
                   hooked, hookArgs, gen,
                   refused, regVars,
                   mediaVars, provVars, mapVars, keyVars, msVars, ops>>

\* The effect's cleanup when the component unmounts: the listener is removed
\* and the component's state is gone; the object stays started.
Detach(c, t) ==
    /\ ops < MaxHookOps
    /\ hooked[c][t]
    /\ ops' = ops + 1
    /\ hooked' = [hooked EXCEPT ![c][t] = FALSE]
    /\ hookArgs' = [hookArgs EXCEPT ![c][t] = NoArgs]
    /\ listeningRef' = [listeningRef EXCEPT ![c][t] = FALSE]
    /\ allEvents' = IF t = EventKind THEN [allEvents EXCEPT ![c] = <<>>]
                    ELSE allEvents
    /\ latestEvent' = IF t = EventKind THEN [latestEvent EXCEPT ![c] = NoEvent]
                      ELSE latestEvent
    /\ heard' = IF t = EventKind THEN [heard EXCEPT ![c] = <<>>] ELSE heard
    /\ current' = IF t = StateKind THEN [current EXCEPT ![c] = NoRecord]
                  ELSE current
    /\ allUsers' = IF t = PresenceKind THEN [allUsers EXCEPT ![c] = <<>>]
                   ELSE allUsers
    /\ UNCHANGED <<role, inst, wire, got, sends, rejected, gen, refused, regVars,
                   mediaVars, provVars, mapVars, keyVars, msVars>>

\* The registry hands the client the next instance of the key (the winner
\* of a race): a hook that listens moves its listener to the new object and
\* starts it.
SwitchHandle(c, t) ==
    /\ ops < MaxHookOps
    /\ ops' = ops + 1
    /\ gen' = [gen EXCEPT ![c][t] = @ + 1]
    /\ IF listeningRef[c][t]
       THEN EffectRun(c, t, gen[c][t] + 1, TRUE)
       ELSE /\ inst' = [inst EXCEPT ![c][t] = FreshInst]
            /\ UNCHANGED <<wire, current, allUsers>>
    /\ UNCHANGED <<role, listeningRef, got, allEvents, latestEvent, heard, sends,
                   rejected, hooked,
                   hookArgs, refused, regVars,
                   mediaVars, provVars, mapVars, keyVars, msVars>>

\* sendEvent / changeState / updatePresence with the next payload: the hook
\* refuses the call while its object is unresolved or not started; a started
\* object drops the action of a role it does not allow, else broadcasts it.
Send(c, t) ==
    /\ sends < MaxSends
    /\ role[c] # NoRole
    /\ hooked[c][t]
    /\ sends' = sends + 1
    /\ LET m == [kind |-> t, by |-> c, val |-> sends + 1,
                 st |-> PayloadState(t), on |-> gen[c][t]]
       IN IF ~HookCanSend(c, t)
          THEN refused' = refused \cup {m} /\ UNCHANGED <<wire, rejected>>
          ELSE IF ~RoleAllowed(c, t)
               THEN rejected' = rejected \cup {m} /\ UNCHANGED <<wire, refused>>
               ELSE wire' = Append(wire, m) /\ UNCHANGED <<rejected, refused>>
    /\ UNCHANGED <<role, inst, listeningRef, got, allEvents, latestEvent, heard,
                   current, allUsers,
                   hooked, hookArgs, gen, regVars,
                   mediaVars, provVars, mapVars, keyVars, msVars, ops>>

\* What the event hook's listener adds to allEvents for a received event.
ReceivedTwice(c, m) ==
    <<[by |-> m.by, val |-> m.val, st |-> m.st, local |-> m.by = c],
      [by |-> m.by, val |-> m.val, st |-> m.st, local |-> m.by = c]>>
Received(c, m) ==
    <<[by |-> m.by, val |-> m.val, st |-> m.st, local |-> m.by = c]>>

\* The clients' wall clocks are not synchronised: how far a client's clock is
\* ahead.
ClockLead(c) == IF c = "c1" THEN MaxSends ELSE 0

\* The timestamp of an event: its sender's clock when sendEvent was called
\* (calls are numbered in the order they were made).
Timestamp(e) == e.val + ClockLead(e.by)

\* allEvents after the listener has recorded the event.
AddEventByTime(c, m) ==
    SelectSeq(allEvents[c], LAMBDA e : Timestamp(e) <= Timestamp(m))
        \o Received(c, m)
        \o SelectSeq(allEvents[c], LAMBDA e : Timestamp(e) > Timestamp(m))
AddEvent(c, m) == allEvents[c] \o Received(c, m)

\* setLatestReceived(received).
SetLatestReceivedRemote(c, m) == IF m.by = c THEN latestEvent[c] ELSE Received(c, m)[1]
SetLatestReceived(c, m) == Received(c, m)[1]

\* The state hook's listener: the received pair becomes the hook's state.
OnStateChangedOwn(c, m) ==
    IF m.by = c THEN [current EXCEPT ![c] = Rec(m)] ELSE current
OnStateChanged(c, m) == [current EXCEPT ![c] = Rec(m)]

\* The next broadcast reaches client c; a hook that listens on the
\* broadcast's instance records it.
Receive(c) ==
    /\ got[c] < Len(wire)
    /\ got' = [got EXCEPT ![c] = @ + 1]
    /\ LET m == wire[got[c] + 1]
           on == listeningRef[c][m.kind] /\ m.on = gen[c][m.kind]
       IN /\ allEvents' = IF on /\ m.kind = EventKind
                          THEN [allEvents EXCEPT ![c] = AddEvent(c, m)]
                          ELSE allEvents
          /\ latestEvent' = IF on /\ m.kind = EventKind
                            THEN [latestEvent EXCEPT ![c] = SetLatestReceived(c, m)]
                            ELSE latestEvent
          /\ heard' = IF on /\ m.kind = EventKind
                      THEN [heard EXCEPT ![c] = Append(@, m)]
                      ELSE heard
          /\ current' = IF on /\ m.kind = StateKind
                        THEN OnStateChanged(c, m)
                        ELSE current
          /\ allUsers' = IF on /\ m.kind = PresenceKind
                         THEN [allUsers EXCEPT ![c] =
                                  RosterList(c, wire, got[c] + 1, m.on)]
                         ELSE allUsers
    /\ UNCHANGED <<role, inst, listeningRef, wire, sends, rejected, hooked,
                   hookArgs, gen, refused, regVars,
                   mediaVars, provVars, mapVars, keyVars, msVars, ops>>

\* The channel hooks run on containers that are connected.
InitChannel ==
    /\ conn = [c \in Clients |-> Connected]
    /\ NothingMounted

\* The steps of the hooks of the types K.
NextKinds(K) ==
    \/ \E c \in Clients, r \in Roles : AssignRole(c, r)
    \/ \E c \in Clients, t \in K, ar \in RoleArgs, sd \in SeedArgs :
          HookMount(c, t, ar, sd)
    \/ \E c \in Clients, t \in K : Attach(c, t)
    \/ \E c \in Clients, t \in K : Detach(c, t)
    \/ \E c \in Clients, t \in K : Send(c, t)
    \/ \E c \in Clients : Receive(c)

\* The components mounted at one time use hooks of one type.
OneKindMounted ==
    \A c \in Clients, d \in Clients, t \in Kinds, u \in Kinds :
        (hooked[c][t] /\ hooked[d][u]) => t = u

\* All three hooks, over a shorter run of mounts and unmounts.
NextChannel ==
    /\ NextKinds(Kinds)
    /\ ops' <= MaxChannelOps
    /\ OneKindMounted'

SpecChannel == InitChannel /\ [][NextChannel]_vars

\* The event hook alone.
NextEvent == NextKinds({EventKind})

SpecEvent == InitChannel /\ [][NextEvent]_vars

\* The event hook while the registry moves it to later instances of its key.
NextEventSwitch ==
    /\ \/ NextEvent
       \/ \E c \in Clients : SwitchHandle(c, EventKind)
    /\ ops' <= MaxChannelOps

SpecEventSwitch == InitChannel /\ [][NextEventSwitch]_vars

\* Every broadcast is delivered to every client and a resolved object's
\* effect runs.
FairnessEvent ==
    \A c \in Clients : WF_vars(Receive(c)) /\ WF_vars(Attach(c, EventKind))

\* The event hook over a shorter run of mounts and unmounts, with delivery
\* guaranteed.
NextEventFair == NextEvent /\ ops' <= MaxChannelOps

FairEvent == InitChannel /\ [][NextEventFair]_vars /\ FairnessEvent

\* The state hook alone.
NextState == NextKinds({StateKind})

SpecState == InitChannel /\ [][NextState]_vars

\* The presence hook alone, with the key's instance changing at a race.
NextPresence ==
    /\ \/ NextKinds({PresenceKind})
       \/ \E c \in Clients : SwitchHandle(c, PresenceKind)
    /\ sends' <= MaxPresenceSends

SpecPresence == InitChannel /\ [][NextPresence]_vars

\* The presence hook on one instance over a shorter run of mounts and
\* unmounts, with delivery guaranteed.
NextPresenceFair ==
    /\ NextKinds({PresenceKind})
    /\ ops' <= MaxChannelOps
    /\ sends' <= MaxPresenceSends

FairnessPresence ==
    \A c \in Clients :
        WF_vars(Receive(c)) /\ WF_vars(Attach(c, PresenceKind))

FairPresence == InitChannel /\ [][NextPresenceFair]_vars /\ FairnessPresence

\* ------------------------------------------------- unregistering mid-flight
\* No component with a registry hook is mounted and nothing was created.
RegistryIdle ==
    /\ conn = [c \in Clients |-> CatchingUp]
    /\ log = <<>>
    /\ mounted = [c \in Clients |-> [i \in Comps |-> FALSE]]
    /\ pending = [c \in Clients |-> EmptyBag]

\* The components of one run use the registry hooks or the event hook: the
\* two do not touch each other's state. A short run of mounts and unmounts.
NextCancel ==
    /\ \/ ChannelIdle /\ Next
       \/ RegistryIdle /\ NextEvent
    /\ ops' <= MaxChannelOps

\* The transport keeps delivering writes and broadcasts, creations complete,
\* a container that has caught up becomes Connected and a resolved object's
\* effect runs.
FairnessCancel ==
    \A c \in Clients :
        /\ WF_vars(ChannelIdle /\ ConnectedEvent(c))
        /\ WF_vars(ChannelIdle /\ Deliver(c))
        /\ WF_vars(ChannelIdle
                     /\ \E p \in BagToSet(pending[c]) : CompleteCreate(c, p))
        /\ WF_vars(RegistryIdle /\ Receive(c))
        /\ WF_vars(RegistryIdle /\ Attach(c, EventKind))

FairCancel == Init /\ [][NextCancel]_vars /\ FairnessCancel

\* ------------------------------------------------- media synchronizer
\* Mutators of the hook; seekTo and setTrack are called on the synchronizer
\* in the same way as pause.
Commands == {"play", "pause"}

\* The group's latest command among the first n.
LastCommand(w, n) == IF n = 0 THEN NoCommand ELSE w[n]

\* The synchronizer follows the group: it is neither suspended nor viewOnly.
FollowsAlways(c) == TRUE
FollowsUnlessSuspended(c) == ~active[c]
Follows(c) == ~active[c] /\ ~viewOnly[c]

\* The local player after the end of a suspension: put to the group's
\* latest command that has reached the client, unless the client is a
\* spectator.
Reconcile(c) ==
    IF viewOnly[c] \/ LastCommand(commands, seen[c]) = NoCommand
    THEN player[c]
    ELSE LastCommand(commands, seen[c])

\* The listener effect of the media hook: the session is resolved, the
\* player is synchronized and the hook's viewOnly argument (vo) is set on
\* the synchronizer.
MediaAttach(c, vo) ==
    /\ ops < MaxMediaOps
    /\ ~synchronizer[c]
    /\ ops' = ops + 1
    /\ synchronizer' = [synchronizer EXCEPT ![c] = TRUE]
    /\ viewOnly' = [viewOnly EXCEPT ![c] = vo]
    /\ UNCHANGED <<suspension, active, player, commands, seen, endCalled,
                   regVars, chanVars, provVars, mapVars, keyVars, msVars>>

\* The component is rendered with another viewOnly argument.
SetViewOnly(c, vo) ==
    /\ ops < MaxMediaOps
    /\ synchronizer[c]
    /\ viewOnly[c] # vo
    /\ ops' = ops + 1
    /\ viewOnly' = [viewOnly EXCEPT ![c] = vo]
    /\ UNCHANGED <<synchronizer, suspension, active, player, commands, seen,
                   endCalled, regVars, chanVars, provVars, mapVars, keyVars, msVars>>

\* The mutators test neither the suspension nor viewOnly.
CanCommandUnlessSuspended(c) == synchronizer[c] /\ ~active[c]
CanCommand(c) == synchronizer[c]

\* play() / pause() / seekTo() / setTrack(): the synchronizer broadcasts
\* the command.
Command(c, cmd) ==
    /\ Len(commands) < MaxCommands
    /\ CanCommand(c)
    /\ commands' = Append(commands, [by |-> c, cmd |-> cmd,
                                     val |-> Len(commands) + 1])
    /\ UNCHANGED <<synchronizer, viewOnly, suspension, active, player, seen,
                   endCalled, regVars, chanVars, provVars, mapVars, keyVars, msVars, ops>>

\* The next group command reaches client c; a synchronizer that follows the
\* group puts the local player to it.
MediaReceive(c) ==
    /\ seen[c] < Len(commands)
    /\ seen' = [seen EXCEPT ![c] = @ + 1]
    /\ player' = IF synchronizer[c] /\ Follows(c)
                 THEN [player EXCEPT ![c] = commands[seen[c] + 1]]
                 ELSE player
    /\ UNCHANGED <<synchronizer, viewOnly, suspension, active, commands,
                   endCalled, regVars, chanVars, provVars, mapVars, keyVars, msVars, ops>>

\* The hook's suspension state after a suspension has begun on the
\* coordinator: the hook has no call of setSuspension with a suspension.
SuspensionKept(c) == suspension[c]

\* A suspension begins on the client's coordinator.
BeginSuspension(c) ==
    /\ ops < MaxMediaOps
    /\ synchronizer[c]
    /\ ~active[c]
    /\ ops' = ops + 1
    /\ active' = [active EXCEPT ![c] = TRUE]
    /\ suspension' = [suspension EXCEPT ![c] = SuspensionKept(c)]
    /\ endCalled' = [endCalled EXCEPT ![c] = FALSE]
    /\ UNCHANGED <<synchronizer, viewOnly, player, commands, seen, regVars,
                   chanVars, provVars, mapVars, keyVars, msVars>>

\* endSuspension() of the hook: suspension?.end(); setSuspension(undefined).
EndSuspension(c) ==
    /\ ops < MaxMediaOps
    /\ synchronizer[c]
    /\ active[c]
    /\ ops' = ops + 1
    /\ active' = [active EXCEPT ![c] = IF suspension[c] THEN FALSE ELSE @]
    /\ player' = [player EXCEPT ![c] = IF suspension[c] THEN Reconcile(c) ELSE @]
    /\ suspension' = [suspension EXCEPT ![c] = FALSE]
    /\ endCalled' = [endCalled EXCEPT ![c] = TRUE]
    /\ UNCHANGED <<synchronizer, viewOnly, commands, seen, regVars, chanVars,
                   provVars, mapVars, keyVars, msVars>>

\* end() called on the suspension object itself.
SuspensionEnd(c) ==
    /\ ops < MaxMediaOps
    /\ active[c]
    /\ ops' = ops + 1
    /\ active' = [active EXCEPT ![c] = FALSE]
    /\ player' = [player EXCEPT ![c] = Reconcile(c)]
    /\ UNCHANGED <<synchronizer, viewOnly, suspension, commands, seen,
                   endCalled, regVars, chanVars, provVars, mapVars, keyVars, msVars>>

NextMedia ==
    \/ \E c \in Clients, vo \in BOOLEAN : MediaAttach(c, vo)
    \/ \E c \in Clients, vo \in BOOLEAN : SetViewOnly(c, vo)
    \/ \E c \in Clients, cmd \in Commands : Command(c, cmd)
    \/ \E c \in Clients : MediaReceive(c)
    \/ \E c \in Clients : BeginSuspension(c)
    \/ \E c \in Clients : EndSuspension(c)
    \/ \E c \in Clients : SuspensionEnd(c)

SpecMedia == InitChannel /\ [][NextMedia]_vars

\* ------------------------------------------------- context providers
ProviderKinds == {"fluid", "liveShare"}

\* The props the effect reads: containerId (set or not), joinOnLoad and
\* createOnLoad of FluidContextProvider, joinOnLoad of
\* LiveShareContextProvider.
Props(kind) ==
    IF kind = "fluid"
    THEN [containerId : BOOLEAN, joinOnLoad : BOOLEAN, createOnLoad : BOOLEAN]
    ELSE [containerId : {FALSE}, joinOnLoad : BOOLEAN, createOnLoad : {FALSE}]

\* What the provider's effect calls on load: FluidContextProvider joins when
\* it has a containerId and joinOnLoad, creates when it has none and
\* createOnLoad; LiveShareContextProvider joins when joinOnLoad.
OnLoad(kind, pr) ==
    IF kind = "fluid"
    THEN IF pr.containerId /\ pr.joinOnLoad THEN "getContainer"
         ELSE IF ~pr.containerId /\ pr.createOnLoad THEN "createContainer"
         ELSE "none"
    ELSE IF pr.joinOnLoad THEN "joinContainer" ELSE "none"

\* "if (results || startedRef.current) return" of the effect.
EffectPasses == ~results /\ ~startedRef

\* "startedRef.current = true".
StartedNotMarked == startedRef
StartedMarked == TRUE

\* What the application can call through the context.
AppOps(kind) ==
    IF kind = "fluid" THEN {"getContainer", "createContainer"}
    ELSE {"joinContainer"}

\* What a rejecting transport call throws: an Error or any other value.
TransportErrors(n) ==
    {[id |-> n, src |-> "transport", isError |-> b] : b \in BOOLEAN}

\* joinContainer before its transport call: the Teams SDK is initialized
\* ("ready"), or the promise is rejected with an Error (not initialized, or
\* app.initialize() failed with one) or with another value, and the function
\* goes on to the transport call; or app.initialize() failed and
\* app.notifySuccess() then threw ("thrown"), which ends the function.
SdkOutcomes(kind) ==
    IF kind = "liveShare" THEN {"ready", "Error", "value", "thrown"}
    ELSE {"ready"}
SdkError(n, sdk) ==
    [id |-> n, src |-> "sdk", isError |-> sdk \in {"Error", "thrown"}]

\* The Error the provider's effect puts in place of a thrown value.
UnknownError == [id |-> 0, src |-> "provider", isError |-> TRUE]

NewPromise(n, op, by, sdk) ==
    [op |-> op, by |-> by,
     status |-> IF sdk = "ready" THEN "pending" ELSE "rejected",
     error |-> IF sdk = "ready" THEN NoError ELSE SdkError(n, sdk),
     transport |-> IF sdk = "thrown" THEN "none" ELSE "pending",
     terror |-> NoError]

\* .catch of the joinContainer() call in LiveShareContextProvider's effect.
EffectCatch(e) == IF e.isError THEN e ELSE UnknownError

\* joinError after the transport call of promise p has thrown e: the catch
\* in getContainer/createContainer sets an Error; joinContainer's catch only
\* rejects, and the effect's .catch runs when its promise rejects.
JoinErrorAfter(p, e) ==
    IF provider.kind = "fluid"
    THEN IF e.isError THEN e ELSE joinError
    ELSE IF p.by = "provider" /\ p.status = "pending"
         THEN EffectCatch(e) ELSE joinError

\* reject(error) on a promise: a promise settles once.
RejectedKeptPending(p, e) == [p EXCEPT !.transport = "failed", !.terror = e]
Rejected(p, e) ==
    [p EXCEPT !.transport = "failed", !.terror = e,
              !.status = IF @ = "pending" THEN "rejected" ELSE @,
              !.error = IF p.status = "pending" THEN e ELSE @]

\* A call of getContainer, createContainer or joinContainer.
CallMade(op, by, sdk) ==
    /\ promises' = Append(promises,
                          NewPromise(Len(promises) + 1, op, by, sdk))
    /\ joinError' = IF sdk # "ready" /\ by = "provider"
                    THEN EffectCatch(SdkError(Len(promises) + 1, sdk))
                    ELSE joinError

\* The effect of a provider of the given kind with the props pr: when it
\* passes its test it sets startedRef and makes the on-load call, if any.
EffectRuns(kind, pr, sdk) ==
    IF EffectPasses
    THEN /\ startedRef' = StartedMarked
         /\ IF OnLoad(kind, pr) = "none"
            THEN sdk = "ready" /\ UNCHANGED <<promises, joinError>>
            ELSE /\ Len(promises) < MaxPromises
                 /\ CallMade(OnLoad(kind, pr), "provider", sdk)
    ELSE sdk = "ready" /\ UNCHANGED <<startedRef, promises, joinError>>

\* The provider mounts and its effect runs.
ProviderMount(kind, pr, sdk) ==
    /\ provider = NoProvider
    /\ provider' = [kind |-> kind, props |-> pr]
    /\ EffectRuns(kind, pr, sdk)
    /\ UNCHANGED <<results, ddsEffect, regVars, chanVars, mediaVars, mapVars,
                   keyVars, msVars, ops>>

\* The provider renders with other props: the effect, which depends on
\* them, runs again.
PropsChange(pr, sdk) ==
    /\ provider # NoProvider
    /\ pr \in Props(provider.kind) \ {provider.props}
    /\ sdk \in SdkOutcomes(provider.kind)
    /\ provider' = [provider EXCEPT !.props = pr]
    /\ EffectRuns(provider.kind, pr, sdk)
    /\ UNCHANGED <<results, ddsEffect, regVars, chanVars, mediaVars, mapVars,
                   keyVars, msVars, ops>>

\* The application calls getContainer, createContainer or joinContainer.
AppCall(op, sdk) ==
    /\ provider # NoProvider
    /\ op \in AppOps(provider.kind)
    /\ sdk \in SdkOutcomes(provider.kind)
    /\ Len(promises) < MaxPromises
    /\ CallMade(op, "app", sdk)
    /\ UNCHANGED <<provider, results, startedRef, ddsEffect, regVars,
                   chanVars, mediaVars, mapVars, keyVars, msVars, ops>>

\* client.createContainer resolved: createContainer awaits attach().
ContainerCreated(n) ==
    /\ promises[n].op = "createContainer"
    /\ promises[n].transport = "pending"
    /\ promises' = [promises EXCEPT ![n].transport = "attaching"]
    /\ UNCHANGED <<provider, results, joinError, startedRef, ddsEffect,
                   regVars, chanVars, mediaVars, mapVars, keyVars, msVars, ops>>

\* resolve(results) on a promise: a promise settles once.
ResolvedOverRejection(p) == [p EXCEPT !.transport = "done", !.status = "resolved"]
Resolved(p) ==
    [p EXCEPT !.transport = "done",
              !.status = IF @ = "pending" THEN "resolved" ELSE @]

\* The last transport call of promise n resolves: setResults, resolve.
TransportResolve(n) ==
    /\ promises[n].transport =
          IF promises[n].op = "createContainer" THEN "attaching"
          ELSE "pending"
    /\ promises' = [promises EXCEPT ![n] = Resolved(@)]
    /\ results' = TRUE
    /\ UNCHANGED <<provider, joinError, startedRef, ddsEffect, regVars,
                   chanVars, mediaVars, mapVars, keyVars, msVars, ops>>

\* A transport call of promise n throws e: the catch block.
TransportReject(n, e) ==
    /\ promises[n].transport \in {"pending", "attaching"}
    /\ promises' = [promises EXCEPT ![n] = Rejected(@, e)]
    /\ joinError' = JoinErrorAfter(promises[n], e)
    /\ UNCHANGED <<provider, results, startedRef, ddsEffect, regVars,
                   chanVars, mediaVars, mapVars, keyVars, msVars, ops>>

\* A hook's registration effect: "if (!container) return" lets it pass only
\* when the provider has results.
ContainerGate == results
HookEffect ==
    /\ provider # NoProvider
    /\ ContainerGate
    /\ ~ddsEffect
    /\ ddsEffect' = TRUE
    /\ UNCHANGED <<provider, results, joinError, startedRef, promises,
                   regVars, chanVars, mediaVars, mapVars, keyVars, msVars, ops>>

NextProvider ==
    \/ \E kind \in ProviderKinds : \E pr \in Props(kind) :
          \E sdk \in SdkOutcomes(kind) : ProviderMount(kind, pr, sdk)
    \/ \E pr \in Props("fluid") : \E sdk \in SdkOutcomes("liveShare") :
          PropsChange(pr, sdk)
    \/ \E op \in {"getContainer", "createContainer", "joinContainer"} :
          \E sdk \in SdkOutcomes("liveShare") : AppCall(op, sdk)
    \/ \E n \in DOMAIN promises : ContainerCreated(n)
    \/ \E n \in DOMAIN promises : TransportResolve(n)
    \/ \E n \in DOMAIN promises : \E e \in TransportErrors(n) :
          TransportReject(n, e)
    \/ HookEffect

SpecProvider == InitChannel /\ [][NextProvider]_vars

\* ------------------------------------------------- shared map hook
\* initialData arguments: none, or one entry; getInitialData builds the map.
InitialDatas == {NoData, [NoData EXCEPT !["x"] = 1]}
\* The value setEntry is called with; deleteEntry leaves no entry.
NewValue == 2
Deleted == 0

RECURSIVE Fold(_, _, _, _, _)
\* sharedMap.entries() of instance h on client c: the first g sequenced
\* operations and, on top of them, the client's own that are still in flight.
Fold(w, n, h, c, g) ==
    IF n = 0 THEN NoData
    ELSE LET prev == Fold(w, n - 1, h, c, g)
         IN IF w[n].inst = h /\ (n <= g \/ w[n].by = c)
            THEN [prev EXCEPT ![w[n].key] = w[n].val]
            ELSE prev

Entries(c, h, w, g) == Fold(w, Len(w), h, c, g)

\* onValueChanged: setMap(new Map(sharedMap.entries())).
MirrorOverInitial(c, h, w, g) ==
    [k \in MapKeys |-> IF Entries(c, h, w, g)[k] # 0
                       THEN Entries(c, h, w, g)[k] ELSE initialData[c][k]]
Mirror(c, h, w, g) == Entries(c, h, w, g)

RECURSIVE SeedOps(_, _, _, _)
\* onFirstInitialize: dds.set(key, value) for every entry of initialData.
SeedOps(K, c, h, d) ==
    IF K = {} THEN <<>>
    ELSE LET k == CHOOSE x \in K : TRUE
         IN IF d[k] = 0 THEN SeedOps(K \ {k}, c, h, d)
            ELSE <<[inst |-> h, key |-> k, val |-> d[k], by |-> c]>>
                 \o SeedOps(K \ {k}, c, h, d)

\* The component mounts: useState(getInitialData(initialData)).
MapMount(c, d) ==
    /\ ops < MaxMapOps
    /\ ~mapHook[c]
    /\ ops' = ops + 1
    /\ mapHook' = [mapHook EXCEPT ![c] = TRUE]
    /\ initialData' = [initialData EXCEPT ![c] = d]
    /\ map' = [map EXCEPT ![c] = d]
    /\ UNCHANGED <<sharedMap, mapListening, mapOps, mapGot, created, mapCalls,
                   regVars, chanVars, mediaVars, provVars, keyVars, msVars>>

\* The component unmounts: the listener effect's cleanup runs and the
\* hook's state is gone.
MapUnmount(c) ==
    /\ ops < MaxMapOps
    /\ mapHook[c]
    /\ ops' = ops + 1
    /\ mapHook' = [mapHook EXCEPT ![c] = FALSE]
    /\ initialData' = [initialData EXCEPT ![c] = NoData]
    /\ sharedMap' = [sharedMap EXCEPT ![c] = 0]
    /\ mapListening' = [mapListening EXCEPT ![c] = {}]
    /\ map' = [map EXCEPT ![c] = NoData]
    /\ UNCHANGED <<mapOps, mapGot, created, mapCalls,
                   regVars, chanVars, mediaVars, provVars, keyVars, msVars>>

\* The registry finds the key absent for the hook of client c: it creates an
\* instance and onFirstInitialize seeds it. The client's own write maps the
\* key from then on, so a client creates one instance at most.
MapCreate(c) ==
    /\ mapHook[c]
    /\ sharedMap[c] = 0
    /\ \A h \in DOMAIN created : created[h] # c
    /\ created' = Append(created, c)
    /\ mapOps' = mapOps \o SeedOps(MapKeys, c, Len(created) + 1, initialData[c])
    /\ UNCHANGED <<mapHook, initialData, sharedMap, mapListening, map, mapGot,
                   mapCalls, regVars, chanVars, mediaVars, provVars, keyVars, msVars, ops>>

\* The registry's callback: setSharedMap(h), first with an instance the key
\* is mapped to and again when a later write wins the race.
MapResolve(c, h) ==
    /\ mapHook[c]
    /\ h \in DOMAIN created
    /\ h > sharedMap[c]
    /\ sharedMap' = [sharedMap EXCEPT ![c] = h]
    /\ UNCHANGED <<mapHook, initialData, mapListening, map, mapOps, mapGot,
                   created, mapCalls, regVars, chanVars, mediaVars, provVars,
                   keyVars, msVars, ops>>

\* The listener effect for the new sharedMap: the cleanup of the previous
\* run takes its listener off, then the listener goes on the new instance
\* and onValueChanged() is called once.
ListenerKept(c) == mapListening[c] \cup {sharedMap[c]}
ListenerMoved(c) == {sharedMap[c]}
MapAttach(c) ==
    /\ mapHook[c]
    /\ sharedMap[c] # 0
    /\ sharedMap[c] \notin mapListening[c]
    /\ mapListening' = [mapListening EXCEPT ![c] = ListenerMoved(c)]
    /\ map' = [map EXCEPT ![c] = Mirror(c, sharedMap[c], mapOps, mapGot[c])]
    /\ UNCHANGED <<mapHook, initialData, sharedMap, mapOps, mapGot, created,
                   mapCalls, regVars, chanVars, mediaVars, provVars, keyVars, msVars, ops>>

RECURSIVE CallsMade(_)
\* setEntry and deleteEntry calls of the clients S together.
CallsMade(S) ==
    IF S = {} THEN 0
    ELSE LET c == CHOOSE x \in S : TRUE
         IN mapCalls[c] + CallsMade(S \ {c})

\* "if (!sharedMap) return" of setEntry and deleteEntry.
MapResolved(c) == sharedMap[c] # 0

\* setEntry(k, value) and deleteEntry(k): sharedMap.set or sharedMap.delete,
\* which changes the local replica at once and raises valueChanged on it.
MapWrite(c, k, v) ==
    /\ CallsMade(Clients) < MaxMapCalls
    /\ mapHook[c]
    /\ mapCalls' = [mapCalls EXCEPT ![c] = @ + 1]
    /\ IF ~MapResolved(c)
       THEN UNCHANGED <<mapOps, map>>
       ELSE /\ mapOps' = Append(mapOps, [inst |-> sharedMap[c], key |-> k,
                                         val |-> v, by |-> c])
            /\ map' = IF sharedMap[c] \in mapListening[c]
                      THEN [map EXCEPT ![c] =
                              Mirror(c, sharedMap[c], mapOps', mapGot[c])]
                      ELSE map
    /\ UNCHANGED <<mapHook, initialData, sharedMap, mapListening, mapGot,
                   created, regVars, chanVars, mediaVars, provVars, keyVars, msVars, ops>>

\* The next sequenced operation reaches client c. Its own operations were
\* applied when made; another client's changes the replica, and raises
\* valueChanged, unless an operation of c on the key is still in flight.
Masked(c, n) ==
    \E m \in (n + 1)..Len(mapOps) :
        /\ mapOps[m].by = c
        /\ mapOps[m].inst = mapOps[n].inst
        /\ mapOps[m].key = mapOps[n].key

MapDeliver(c) ==
    /\ mapGot[c] < Len(mapOps)
    /\ mapGot' = [mapGot EXCEPT ![c] = @ + 1]
    /\ LET n == mapGot[c] + 1
       IN map' = IF /\ mapOps[n].by # c
                    /\ mapOps[n].inst \in mapListening[c]
                    /\ ~Masked(c, n)
                 THEN [map EXCEPT ![c] =
                         Mirror(c, mapOps[n].inst, mapOps, n)]
                 ELSE map
    /\ UNCHANGED <<mapHook, initialData, sharedMap, mapListening, mapOps,
                   created, mapCalls, regVars, chanVars, mediaVars, provVars,
                   keyVars, msVars, ops>>

NextMap ==
    \/ \E c \in Clients, d \in InitialDatas : MapMount(c, d)
    \/ \E c \in Clients : MapUnmount(c)
    \/ \E c \in Clients : MapCreate(c)
    \/ \E c \in Clients, h \in DOMAIN created : MapResolve(c, h)
    \/ \E c \in Clients : MapAttach(c)
    \/ \E c \in Clients, k \in MapKeys, v \in {NewValue, Deleted} :
          MapWrite(c, k, v)
    \/ \E c \in Clients : MapDeliver(c)

SpecMap == InitChannel /\ [][NextMap]_vars

\* ------------------------------------------------- registry keys
\* Caller keys are strings over pieces that no piece is a prefix of, so two
\* strings are equal exactly when their sequences of pieces are.
KeyPieces == {"<SharedMap>:", "k"}
CallerKeys == UNION {[1..m -> KeyPieces] : m \in 0..MaxKeyLen}

\* The hooks; the source holds useEphemeralPresence in a version that
\* forms the key with "??".
PresenceHooks == {"useEphemeralPresence", "useEphemeralPresence ??"}
HookNames ==
    {"useSharedMap", "useEphemeralEvent", "useEphemeralState",
     "useMediaSynchronizer"} \cup PresenceHooks

\* The type tag of a hook with the ":" that follows it, one piece.
TypeTag(h) ==
    CASE h = "useSharedMap" -> "<SharedMap>:"
      [] h = "useEphemeralEvent" -> "<EphemeralEvent>:"
      [] h = "useEphemeralState" -> "<EphemeralState>:"
      [] h = "useMediaSynchronizer" -> "<EphemeralMediaSession>:"
      [] h \in PresenceHooks -> "<EphemeralPresence>:"

\* `<TypeTag>:${uniqueKey}`.
PrefixedNoTag(tag, k) == k
Prefixed(tag, k) == <<tag>> \o k

\* uniqueKey: string = ":<dds-default>".
DefaultKey == <<":", "<dds-default>">>

\* _uniqueKey of hook h called with the key k, or with none when ~given.
RegistryKey(h, given, k) ==
    IF h = "useEphemeralPresence ??"
    THEN IF given THEN k ELSE <<"<EphemeralPresence>:", "<dds-default>">>
    ELSE Prefixed(TypeTag(h), IF given THEN k ELSE DefaultKey)

\* Client c mounts hook h with uniqueKey k; only the presence hooks can be
\* called without one.
NameKey(c, h, given, k) ==
    /\ named[c] = NoName
    /\ given \/ (h \in PresenceHooks /\ k = <<>>)
    /\ named' = [named EXCEPT ![c] = [hook |-> h, given |-> given, arg |-> k,
                                      key |-> RegistryKey(h, given, k)]]
    /\ UNCHANGED <<regVars, chanVars, mediaVars, provVars, mapVars, msVars, ops>>

NextKeys ==
    \E c \in Clients, h \in HookNames, given \in BOOLEAN, k \in CallerKeys :
        NameKey(c, h, given, k)

SpecKeys == InitChannel /\ [][NextKeys]_vars

\* ------------------------------------------------- media hook life cycle
\* initialTrack and setTrack arguments: null, the empty string, a source
\* string, a metadata object with a trackIdentifier, one without.
Tracks == {"null", "empty", "src", "metadata", "partial"}

\* isExtendedMediaMetadata(value): value === null || !!value?.trackIdentifier.
IsExtendedMediaMetadata(t) == t \in {"null", "metadata"}
\* typeof value === "string".
IsString(t) == t \in {"empty", "src"}
\* "if (initialTrack)".
Truthy(t) == t \notin {"null", "empty"}

\* The effect on a started session: setTrack is called for a truthy
\* initialTrack that is a metadata object or a string.
SetsTrackIfNotNull(t) == t # "null"
SetsTrack(t) == Truthy(t) /\ (IsExtendedMediaMetadata(t) \/ IsString(t))

\* mediaSession.start(allowedRoles ?? []).
StartArg(h) == IF h.given THEN h.roles ELSE {}

\* The cleanup of the effect bound to instance g: listeningRef is reset,
\* mediaSession.removeAllListeners() and synchronizer.end() are called.
RemoveAllListeners(ls) == {}
SynchronizerKept(n) == n
SynchronizerEnded(n) == n - 1
CleanedUp(ss, g) ==
    IF g = 0 THEN ss
    ELSE [ss EXCEPT ![g].listeners = RemoveAllListeners(@),
                    ![g].live = SynchronizerEnded(@)]

\* The effect on instance g of a hook with the arguments h, after the
\* cleanup left the sessions ss: synchronize the player, then start a
\* session that is not started.
Synchronized(ss, g) ==
    [ss EXCEPT ![g].live = @ + 1, ![g].started = TRUE]

\* The component with useMediaSynchronizer mounts; its player element is
\* there or not.
MsMount(c, given, ar, t, pl) ==
    /\ ops < MaxHookOps
    /\ ~msHook[c].mounted
    /\ given \/ ar = {}
    /\ ops' = ops + 1
    /\ msHook' = [msHook EXCEPT ![c] = [mounted |-> TRUE, given |-> given,
                                        roles |-> ar, track |-> t, player |-> pl]]
    /\ UNCHANGED <<msHandle, msAttached, msSync, msSession, msStarts, msTracks,
                   msLast, msSent>>
    /\ UNCHANGED <<regVars, chanVars, mediaVars, provVars, mapVars, keyVars>>

\* setMediaSession(g) with the first or the next instance of the key, and
\* the effect that depends on it: the cleanup of the previous run, then the
\* run on g, which returns early without a player.
MsResolve(c) ==
    /\ msHook[c].mounted
    /\ msHandle[c] + 1 \in SessionInsts
    /\ LET g == msHandle[c] + 1
           h == msHook[c]
           ss == CleanedUp(msSession[c], msAttached[c])
       IN /\ msHandle' = [msHandle EXCEPT ![c] = g]
          /\ IF ~h.player
             THEN /\ msAttached' = [msAttached EXCEPT ![c] = 0]
                  /\ msSession' = [msSession EXCEPT ![c] = ss]
                  /\ UNCHANGED <<msSync, msStarts, msTracks>>
             ELSE /\ msAttached' = [msAttached EXCEPT ![c] = g]
                  /\ msSync' = [msSync EXCEPT ![c] = g]
                  /\ msSession' = [msSession EXCEPT ![c] = Synchronized(ss, g)]
                  /\ msStarts' = IF ~ss[g].started
                                 THEN [msStarts EXCEPT ![c] =
                                         Append(@, [inst |-> g, roles |-> StartArg(h)])]
                                 ELSE msStarts
                  /\ msTracks' = IF ss[g].started /\ SetsTrack(h.track)
                                 THEN [msTracks EXCEPT ![c] =
                                         Append(@, [inst |-> g, track |-> h.track])]
                                 ELSE msTracks
    /\ UNCHANGED <<msHook, msLast, msSent>>
    /\ UNCHANGED <<regVars, chanVars, mediaVars, provVars, mapVars, keyVars, ops>>

\* The component unmounts: the cleanup runs and the hook's state is gone.
MsUnmount(c) ==
    /\ ops < MaxHookOps
    /\ msHook[c].mounted
    /\ ops' = ops + 1
    /\ msHook' = [msHook EXCEPT ![c] = NoHook]
    /\ msHandle' = [msHandle EXCEPT ![c] = 0]
    /\ msAttached' = [msAttached EXCEPT ![c] = 0]
    /\ msSync' = [msSync EXCEPT ![c] = 0]
    /\ msSession' = [msSession EXCEPT ![c] = CleanedUp(@, msAttached[c])]
    /\ msLast' = [msLast EXCEPT ![c] = NoMutatorCall]
    /\ UNCHANGED <<msStarts, msTracks, msSent>>
    /\ UNCHANGED <<regVars, chanVars, mediaVars, provVars, mapVars, keyVars>>

\* Another consumer of the same session instance registers a listener on it.
OtherOn(c, g) ==
    /\ ops < MaxHookOps
    /\ "other" \notin msSession[c][g].listeners
    /\ ops' = ops + 1
    /\ msSession' = [msSession EXCEPT ![c][g].listeners = @ \cup {"other"}]
    /\ UNCHANGED <<msHook, msHandle, msAttached, msSync, msStarts, msTracks,
                   msLast, msSent>>
    /\ UNCHANGED <<regVars, chanVars, mediaVars, provVars, mapVars, keyVars>>

\* Another consumer starts the session instance.
OtherStart(c, g) ==
    /\ ops < MaxHookOps
    /\ ~msSession[c][g].started
    /\ ops' = ops + 1
    /\ msSession' = [msSession EXCEPT ![c][g].started = TRUE]
    /\ UNCHANGED <<msHook, msHandle, msAttached, msSync, msStarts, msTracks,
                   msLast, msSent>>
    /\ UNCHANGED <<regVars, chanVars, mediaVars, provVars, mapVars, keyVars>>

\* How a mutator of the hook ends: play() calls mediaSynchronizer!.play()
\* inside a promise's try block, pause() and seekTo() call through "?.",
\* setTrack(track) calls mediaSynchronizer!.setTrack for a track that passes
\* isExtendedMediaMetadata or is a string, and does nothing for another.
OutcomeGuarded(fn, t, has) ==
    IF has THEN "broadcast"
    ELSE IF fn = "play" THEN "rejected" ELSE "noop"
Outcome(fn, t, has) ==
    CASE fn = "play" -> IF has THEN "broadcast" ELSE "rejected"
      [] fn \in {"pause", "seekTo"} -> IF has THEN "broadcast" ELSE "noop"
      [] fn = "setTrack" ->
            IF IsExtendedMediaMetadata(t) \/ IsString(t)
            THEN IF has THEN "broadcast" ELSE "threw"
            ELSE "noop"

\* The application calls play, pause, seekTo or setTrack(t) of the hook.
MsCall(c, fn, t) ==
    /\ ops < MaxHookOps
    /\ msHook[c].mounted
    /\ fn = "setTrack" \/ t = "null"
    /\ ops' = ops + 1
    /\ msLast' = [msLast EXCEPT ![c] =
                    [fn |-> fn, track |-> t,
                     outcome |-> Outcome(fn, t, msSync[c] # 0)]]
    /\ msSent' = [msSent EXCEPT ![c] =
                    IF Outcome(fn, t, msSync[c] # 0) = "broadcast" THEN @ + 1 ELSE @]
    /\ UNCHANGED <<msHook, msHandle, msAttached, msSync, msSession, msStarts,
                   msTracks>>
    /\ UNCHANGED <<regVars, chanVars, mediaVars, provVars, mapVars, keyVars>>

\* The session instances, their listeners and the hook's state are objects
\* of one client: the life cycle is that of one client's components.
NextMediaHook ==
    \/ \E c \in {Self}, given \in BOOLEAN, ar \in RoleArgs, t \in Tracks,
          pl \in BOOLEAN : MsMount(c, given, ar, t, pl)
    \/ \E c \in {Self} : MsResolve(c)
    \/ \E c \in {Self} : MsUnmount(c)
    \/ \E c \in {Self}, g \in SessionInsts : OtherOn(c, g)
    \/ \E c \in {Self}, g \in SessionInsts : OtherStart(c, g)
    \/ \E c \in {Self}, fn \in {"play", "pause", "seekTo", "setTrack"},
          t \in Tracks : MsCall(c, fn, t)

SpecMediaHook == InitChannel /\ [][NextMediaHook]_vars

\* ------------------------------------------------- properties

InFlight(c) == BagToSet(pending[c])

WritesOf(k) == {n \in 1..Len(log) : log[n].key = k}

\* C1 - Convergence: whatever the race among the clients that register a
\* key, eventually every mounted consumer of the key holds, for good, the
\* one instance the sequenced dynamicObjects map ends up mapping the key to.
Convergence ==
    \A k \in Keys :
        <>[](\A c \in Clients, i \in Comps :
                (mounted[c][i] /\ keyOf[c][i] = k)
                    => (dds[c][i] # 0 /\ dds[c][i] = Canonical(k)))

\* Both clients created and wrote an instance for the same key, the loser
\* of the race used its own instance first, and all consumers hold the winner.
RaceConverged ==
    \E k \in Keys :
        /\ Len(log) = 2
        /\ log[1].key = k /\ log[2].key = k
        /\ log[1].writer # log[2].writer
        /\ \A c \in Clients : \E i \in Comps :
               mounted[c][i] /\ keyOf[c][i] = k /\ dds[c][i] = 2
        /\ \E i \in Comps : cbs[log[1].writer][i] = <<1, 2>>

ConnectionGate ==
    \A c \in Clients, i \in Comps :
        /\ regCall[c][i] \in {NoCall, Connected}
        /\ Registered(c, i) => regCall[c][i] = Connected
        /\ i \in connListener[c] =>
              /\ mounted[c][i]
              /\ conn[c] # Connected
              /\ regCall[c][i] = NoCall
        /\ mounted[c][i] => (i \in connListener[c] <=> ~Registered(c, i))

\* One hook of a client is registered and another, mounted after the
\* connection dropped, waits for "connected" without having registered.
HookWaitsForConnected ==
    \E c \in Clients, i, j \in Comps :
        /\ i \in connListener[c] /\ ~Registered(c, i)
        /\ Registered(c, j)
        /\ conn[c] # Connected

\* Number of creations client c has issued for key k: sequenced or in flight.
RECURSIVE SumCopies(_, _)
SumCopies(B, S) ==
    IF S = {} THEN 0
    ELSE LET p == CHOOSE q \in S : TRUE
         IN CopiesIn(p, B) + SumCopies(B, S \ {p})
CreationsBy(c, k) ==
    Cardinality({n \in WritesOf(k) : log[n].writer = c})
        + SumCopies(pending[c], {p \in InFlight(c) : p.key = k})

CallbackDelivery ==
    /\ \A c \in Clients, i \in Comps :
          Registered(c, i) ~> (~Registered(c, i) \/ dds[c][i] # 0)
    /\ [][\A c \in Clients : applied'[c] = applied[c] + 1 =>
            \A i \in Comps : regs[c][log[applied'[c]].key][i] > 0 =>
                /\ cbs'[c][i] = Append(cbs[c][i], applied'[c])
                /\ dds'[c][i] = applied'[c]]_vars

\* A registered consumer was called with a handle and called again when the
\* mapping changed.
CalledAgainOnChange ==
    \E c \in Clients, i \in Comps :
        /\ Registered(c, i)
        /\ Len(cbs[c][i]) >= 2
        /\ cbs[c][i][Len(cbs[c][i])] # cbs[c][i][1]
        /\ dds[c][i] = cbs[c][i][Len(cbs[c][i])]

ReferenceCountTeardown ==
    /\ [](\A c \in Clients, k \in Keys :
            listening[c][k] <=> \E i \in Comps : regs[c][k][i] > 0)
    /\ [](\A c \in Clients, i \in Comps :
            ~mounted[c][i] => (~Registered(c, i) /\ cbs[c][i] = <<>>))
    /\ [][\A c \in Clients : applied'[c] = applied[c] + 1 =>
            \A i \in Comps :
                cbs'[c][i] = IF regs[c][log[applied'[c]].key][i] > 0
                             THEN Append(cbs[c][i], applied'[c])
                             ELSE cbs[c][i]]_vars
    /\ [][\A c \in Clients, i \in Comps :
            (mounted[c][i] /\ ~mounted'[c][i]) =>
                \A j \in Comps \ {i} : \A k \in Keys :
                    regs'[c][k][j] = regs[c][k][j]]_vars

\* The component that created the first instance has unmounted; the other
\* component of the key is still registered and has been called for a change.
SurvivorStillCalled ==
    \E c \in Clients, k \in Keys, i \in Comps, j \in Comps :
        /\ Len(log) = 2 /\ log[1].key = k /\ log[2].key = k
        /\ log[1].writer = c /\ log[1].by = i
        /\ ~mounted[c][i]
        /\ regs[c][k][j] > 0 /\ listening[c][k]
        /\ cbs[c][j] = <<1, 2>>

\* C8 - registering a pair again leaves one subscription: a change invokes
\* the callback once, and one unregister removes the subscription.
IdempotentRegistration ==
    /\ [](\A c \in Clients, k \in Keys, i \in Comps :
            /\ regs[c][k][i] <= 1
            /\ regs[c][k][i] = 1 <=> calls[c][k][i] >= 1)
    /\ [][\A c \in Clients : applied'[c] = applied[c] + 1 =>
            \A i \in Comps :
                Len(cbs'[c][i]) = Len(cbs[c][i]) +
                    (IF calls[c][log[applied'[c]].key][i] >= 1 THEN 1 ELSE 0)]_vars

\* A pair registered twice holds one subscription and a handle.
RegisteredTwiceOneSubscription ==
    \E c \in Clients, k \in Keys, i \in Comps :
        /\ calls[c][k][i] >= 2
        /\ regs[c][k][i] = 1
        /\ dds[c][i] = Canonical(k)
        /\ dds[c][i] # 0

\* C9 - a registration for a key the replica maps is answered with the handle
\* mapped at that moment and starts no creation for the key.
NoStaleHandleAfterTeardown ==
    [][\A c \in Clients, k \in Keys, i \in Comps :
          (regs[c][k][i] = 0 /\ regs'[c][k][i] > 0 /\ View(c, k) # 0) =>
              /\ dds'[c][i] = View(c, k)'
              /\ cbs'[c][i] = Append(cbs[c][i], View(c, k)')
              /\ log' = log
              /\ \A p \in BagToSet(pending'[c]) :
                    p.key = k => CopiesIn(p, pending'[c]) = CopiesIn(p, pending[c])]_vars

\* The key's listener was torn down at handle 1, the mapping changed with
\* nobody registered, and the consumer that registered next was answered 2.
RegisteredAfterTeardownGetsCurrent ==
    \E c \in Clients, k \in Keys, i \in Comps :
        /\ regs[c][k][i] > 0
        /\ \A j \in Comps \ {i} : regs[c][k][j] = 0
        /\ tornAt[c][k] = 1
        /\ cbs[c][i] = <<2>>

\* The roles the hook asked for when the object was started let client c act.
Permitted(c, t) ==
    inst[c][t].startArg = {} \/ role[c] \in inst[c][t].startArg

\* C10 - no broadcast on the transport, and no event, current state or roster
\* record of any client, comes from a client whose role the allowedRoles the
\* channel was started with exclude; an action dropped by the role check
\* appears nowhere.
RoleGating ==
    /\ \A n \in 1..Len(wire) : Permitted(wire[n].by, wire[n].kind)
    /\ \A c \in Clients :
          /\ \A n \in 1..Len(allEvents[c]) : Permitted(allEvents[c][n].by, EventKind)
          /\ current[c].by \in Clients => Permitted(current[c].by, StateKind)
          /\ \A n \in 1..Len(allUsers[c]) :
                Permitted(allUsers[c][n].by, PresenceKind)
    /\ \A m \in rejected :
          /\ ~Permitted(m.by, m.kind)
          /\ \A n \in 1..Len(wire) : wire[n] # m
          /\ \A c \in Clients :
                /\ \A n \in 1..Len(allEvents[c]) :
                      allEvents[c][n].val # m.val
                /\ current[c].val # m.val
                /\ \A n \in 1..Len(allUsers[c]) : allUsers[c][n].val # m.val

\* An attendee's action on an organizers-only channel was dropped, another
\* client's action on the same channel was broadcast, and every client has
\* received everything.
DisallowedSendDropped ==
    \E m \in rejected :
        /\ inst[m.by][m.kind].startArg # {}
        /\ \E n \in 1..Len(wire) : wire[n].kind = m.kind /\ wire[n].by # m.by
        /\ \A c \in Clients : got[c] = Len(wire) /\ listeningRef[c][m.kind]

\* The hook of type t at client c has its object resolved and started.
ObjectStarted(c, t) == listeningRef[c][t] /\ inst[c][t].isInitialized

\* The payload of message m shows in no client's events, state or roster.
ShownNowhere(m) ==
    \A c \in Clients :
        /\ \A n \in 1..Len(allEvents[c]) : allEvents[c][n].val # m.val
        /\ current[c].val # m.val
        /\ \A n \in 1..Len(allUsers[c]) : allUsers[c][n].val # m.val

\* C11 - a sendEvent, changeState or updatePresence call made while the
\* hook's object is unresolved or not started broadcasts nothing and changes
\* no client's events, state or roster: the refusing call leaves the
\* transport, the objects and every hook's state as they were, no call of a
\* client whose object is not started puts a broadcast on the transport, and
\* the refused payload never shows up later, also not after the object has
\* been started.
MutatorsBeforeStartRejected ==
    /\ [](\A m \in refused :
            /\ \A n \in 1..Len(wire) : wire[n] # m
            /\ ShownNowhere(m))
    /\ [][/\ refused' # refused =>
                UNCHANGED <<wire, inst, got, allEvents, latestEvent, heard,
                            current, allUsers,
                            rejected, listeningRef>>
          /\ \A c \in Clients, t \in Kinds :
                (sends' # sends /\ ~ObjectStarted(c, t)) =>
                    \/ wire' = wire
                    \/ wire'[Len(wire')].by # c
                    \/ wire'[Len(wire')].kind # t]_vars

\* A call was refused before the object was started; the same client's next
\* call on the started object was broadcast and every client has received
\* it, while the refused payload shows nowhere.
RefusedThenSentAfterStart ==
    \E m \in refused :
        /\ ObjectStarted(m.by, m.kind)
        /\ \E n \in 1..Len(wire) :
              wire[n].by = m.by /\ wire[n].kind = m.kind /\ wire[n].val > m.val
        /\ \A c \in Clients : got[c] = Len(wire)
        /\ ShownNowhere(m)
        /\ \A n \in 1..Len(wire) : wire[n] # m

\* C12 - a started channel instance stays started and stays as it was
\* started: while a client is on the same instance of a key, no step changes
\* the started flag, the allowedRoles or the initial values of the started
\* instance, whatever arguments components that mount later pass.
StartIsOneWay ==
    [][\A c \in Clients, t \in Kinds :
          (inst[c][t].isInitialized /\ gen'[c][t] = gen[c][t]) =>
              inst'[c][t] = inst[c][t]]_vars

\* A component that mounted after the instance was started passes other
\* allowedRoles and another initial state than the instance was started
\* with, and its effect has run.
LaterCallerNotApplied ==
    \E c \in Clients, t \in Kinds :
        /\ ObjectStarted(c, t)
        /\ hookArgs[c][t].roles # inst[c][t].startArg
        /\ hookArgs[c][t].seed # inst[c][t].seed

\* The records of client c's allEvents that carry payload v.
EventCopies(c, v) ==
    Cardinality({i \in 1..Len(allEvents[c]) : allEvents[c][i].val = v})

\* The event with payload v is on the transport, client c listens and has
\* not been handed it yet.
EventInFlight(c, v) ==
    /\ listeningRef[c][EventKind]
    /\ \E n \in (got[c] + 1)..Len(wire) :
          wire[n].kind = EventKind /\ wire[n].val = v

\* C13 - every event that was broadcast reaches every client that listens on
\* the channel, the sender included: a listening client that has not been
\* handed a broadcast event yet eventually records it (or stops listening);
\* a client's allEvents never holds an event twice, holds only events the
\* transport has handed to the client, and marks an event local exactly when
\* the client is its sender.
InboundDelivery ==
    /\ [](\A c \in Clients : \A i \in 1..Len(allEvents[c]) :
            /\ EventCopies(c, allEvents[c][i].val) = 1
            /\ allEvents[c][i].local = (allEvents[c][i].by = c)
            /\ \E n \in 1..got[c] :
                  /\ wire[n].kind = EventKind
                  /\ wire[n].val = allEvents[c][i].val
                  /\ wire[n].by = allEvents[c][i].by)
    /\ \A c \in Clients : \A v \in 1..MaxSends :
          EventInFlight(c, v) ~>
              (EventCopies(c, v) = 1 \/ ~listeningRef[c][EventKind])

\* One client's event is recorded once by both clients, as local by the
\* sender and as remote by the other client.
SentEventOnBothClients ==
    \E s \in Clients, n \in 1..Len(wire) :
        /\ wire[n].kind = EventKind /\ wire[n].by = s
        /\ \A c \in Clients :
              /\ EventCopies(c, wire[n].val) = 1
              /\ \E i \in 1..Len(allEvents[c]) :
                    /\ allEvents[c][i].val = wire[n].val
                    /\ allEvents[c][i].local = (c = s)

\* The place of the event with payload v in the transport's sequence.
WirePos(v) ==
    CHOOSE n \in 1..Len(wire) : wire[n].kind = EventKind /\ wire[n].val = v

\* Client c has recorded the event with payload v.
HasEvent(c, v) == \E i \in 1..Len(allEvents[c]) : allEvents[c][i].val = v

\* The place of the event with payload v in client c's allEvents.
EventPos(c, v) ==
    CHOOSE i \in 1..Len(allEvents[c]) : allEvents[c][i].val = v

\* C14 - allEvents is in the transport's sequence order on every client: an
\* event recorded before another one was broadcast before it, so two clients
\* that recorded the same two events hold them in the same relative order.
EventOrdering ==
    /\ \A c \in Clients : \A i \in 1..Len(allEvents[c]) :
          \A j \in (i + 1)..Len(allEvents[c]) :
              WirePos(allEvents[c][i].val) < WirePos(allEvents[c][j].val)
    /\ \A c \in Clients, d \in Clients : \A v \in 1..MaxSends, w \in 1..MaxSends :
          (HasEvent(c, v) /\ HasEvent(c, w) /\ HasEvent(d, v) /\ HasEvent(d, w)) =>
              (EventPos(c, v) < EventPos(c, w) <=> EventPos(d, v) < EventPos(d, w))

\* Both clients hold two events of different senders, the one with the later
\* timestamp first.
LaterTimestampFirst ==
    \E v \in 1..MaxSends, w \in 1..MaxSends :
        /\ \A c \in Clients :
              /\ HasEvent(c, v) /\ HasEvent(c, w)
              /\ EventPos(c, v) < EventPos(c, w)
              /\ Timestamp(allEvents[c][EventPos(c, v)]) >
                    Timestamp(allEvents[c][EventPos(c, w)])
              /\ allEvents[c][EventPos(c, v)].by # allEvents[c][EventPos(c, w)].by

\* The latest transition of the state machine that has reached client c on
\* the instance the client is on.
Delivered(c) == LastBroadcast(wire, got[c], StateKind, gen[c][StateKind])

\* C15 - a client whose component mounts the state hook when the state
\* machine already holds a transition at that client observes the current
\* pair of the state machine first, never the initial state the component
\* passed.
JoinerSeesCurrent ==
    [][\A c \in Clients :
          (~hooked[c][StateKind] /\ hooked'[c][StateKind]
              /\ Delivered(c) # NoRecord) => current'[c] # Seed]_vars

\* The latest transition on the transport, on the instance client c is on.
LastTransition(c) ==
    LastBroadcast(wire, Len(wire), StateKind, gen[c][StateKind])

\* C16 - once every broadcast has been delivered to a client whose state hook
\* listens, the hook's current pair is the transition that is last in the
\* transport's sequence order, whoever sent it.
StateConvergence ==
    \A c \in Clients :
        (listeningRef[c][StateKind] /\ got[c] = Len(wire)
            /\ LastTransition(c) # NoRecord) => current[c] = LastTransition(c)

\* Two clients changed the state one after the other, everything is
\* delivered and both listening clients hold the second transition.
BothHoldLastTransition ==
    /\ \E n \in 1..Len(wire) : \E k \in (n + 1)..Len(wire) :
          /\ wire[n].kind = StateKind /\ wire[k].kind = StateKind
          /\ wire[n].by # wire[k].by
    /\ \A c \in Clients :
          /\ listeningRef[c][StateKind]
          /\ got[c] = Len(wire)
          /\ current[c] = LastTransition(c)

\* C17 - a client that started the state machine with an initial state holds
\* that pair until the first transition is delivered to it, and once a
\* transition has been delivered its state hook never shows the initial state
\* again.
SeedUntilFirstTransition ==
    \A c \in Clients :
        (inst[c][StateKind].isInitialized /\ inst[c][StateKind].seed = Seed
            /\ hooked[c][StateKind]) =>
                IF Delivered(c) = NoRecord
                THEN listeningRef[c][StateKind] => current[c] = Seed
                ELSE current[c] # Seed

\* What holds of C17 once the hook's listener effect has run: the hook of a
\* client that started the state machine with an initial state shows that
\* pair while no transition has been delivered, and the delivered transition
\* afterwards.
SeedHeldWhileListening ==
    \A c \in Clients :
        (inst[c][StateKind].isInitialized /\ inst[c][StateKind].seed = Seed
            /\ listeningRef[c][StateKind]) =>
                IF Delivered(c) = NoRecord
                THEN current[c] = Seed
                ELSE current[c] = Delivered(c)

\* A client that started the state machine with an initial state has been
\* delivered a transition, and its listening hook, mounted with the same
\* initial state, shows the transition.
TransitionReplacedSeed ==
    \E c \in Clients :
        /\ inst[c][StateKind].isInitialized /\ inst[c][StateKind].seed = Seed
        /\ listeningRef[c][StateKind] /\ hookArgs[c][StateKind].seed = Seed
        /\ Delivered(c) # NoRecord
        /\ current[c] = Delivered(c)

\* The records client c's roster holds for user u.
RecordsOf(c, u) == {i \in 1..Len(allUsers[c]) : allUsers[c][i].by = u}

\* User u's latest presence record on the transport, on the instance client
\* c is on.
LastUpdate(c, u) == LastBy(wire, Len(wire), u, gen[c][PresenceKind])

\* C18 - the roster of a listening client never holds two records of one
\* user, and once every broadcast has been delivered to the client the record
\* of each user is that user's record that is last in the transport's
\* sequence order, state and data both.
PresenceLastWriteWins ==
    \A c \in Clients : listeningRef[c][PresenceKind] =>
        \A u \in Clients :
            /\ Cardinality(RecordsOf(c, u)) <= 1
            /\ (got[c] = Len(wire) /\ LastUpdate(c, u) # NoRecord) =>
                  \E i \in RecordsOf(c, u) :
                      /\ allUsers[c][i].val = LastUpdate(c, u).val
                      /\ allUsers[c][i].st = LastUpdate(c, u).st

\* A user announced itself and then updated its presence; both clients
\* listen, have been delivered everything and hold exactly the update.
UpdateReplacedAnnouncement ==
    \E u \in Clients :
        /\ \E n \in 1..Len(wire) : \E k \in (n + 1)..Len(wire) :
              /\ wire[n].kind = PresenceKind /\ wire[k].kind = PresenceKind
              /\ wire[n].by = u /\ wire[k].by = u
              /\ wire[n].on = wire[k].on
              /\ wire[n].st # wire[k].st
        /\ \A c \in Clients :
              /\ listeningRef[c][PresenceKind] /\ got[c] = Len(wire)
              /\ \E i \in RecordsOf(c, u) :
                    /\ allUsers[c][i].st = "offline"
                    /\ allUsers[c][i].val = LastUpdate(c, u).val

\* The users in client c's roster.
UsersOf(c) == {allUsers[c][i].by : i \in 1..Len(allUsers[c])}

\* C19 - while a presence hook stays mounted, a user that is in its roster
\* is in every later roster: no step removes a user from allUsers, also not
\* a switch of the instance the hook is on.
PresenceNeverRemoved ==
    [][\A c \in Clients :
          (hooked[c][PresenceKind] /\ hooked'[c][PresenceKind]) =>
              UsersOf(c) \subseteq UsersOf(c)']_vars

\* What holds of C19 for a hook that stays on the first instance of its
\* key: no step removes a user from the roster of a hook that stays mounted.
RosterGrowsOnOneInstance ==
    [][\A c \in Clients :
          (hooked[c][PresenceKind] /\ hooked'[c][PresenceKind]
              /\ gen'[c][PresenceKind] = FirstInstance) =>
                  UsersOf(c) \subseteq UsersOf(c)']_vars

\* A user went offline and the other client, which has been delivered
\* everything, still holds the user's record.
OfflineUserStillListed ==
    \E c \in Clients : \E u \in Clients \ {c} :
        /\ listeningRef[c][PresenceKind] /\ got[c] = Len(wire)
        /\ \E i \in RecordsOf(c, u) : allUsers[c][i].st = "offline"

\* The records of a roster, as a set.
Records(r) == {r[i] : i \in 1..Len(r)}

\* C20 - in every state of the presence hook otherUsers is exactly the
\* records of allUsers of other users, localUser is the record of the local
\* user and undefined exactly when allUsers has none, allUsers holds at most
\* one record per user and at most one of the local user, and allUsers is
\* otherUsers plus localUser.
RosterPartition ==
    \A c \in Clients :
        /\ \A u \in Clients : Cardinality(RecordsOf(c, u)) <= 1
        /\ Cardinality({i \in 1..Len(allUsers[c]) : allUsers[c][i].isLocalUser}) <= 1
        /\ Records(OtherUsers(c)) = {x \in Records(allUsers[c]) : x.by # c}
        /\ Len(OtherUsers(c)) = Cardinality(Records(OtherUsers(c)))
        /\ LocalUser(c) = NoUser <=> RecordsOf(c, c) = {}
        /\ LocalUser(c) # NoUser =>
              LocalUser(c) \in Records(allUsers[c]) /\ LocalUser(c).by = c
        /\ Records(allUsers[c]) =
              Records(OtherUsers(c)) \cup (IF LocalUser(c) = NoUser THEN {}
                                           ELSE {LocalUser(c)})
        /\ Len(allUsers[c]) =
              Len(OtherUsers(c)) + (IF LocalUser(c) = NoUser THEN 0 ELSE 1)

\* A client's roster holds its own record and another user's: localUser is
\* the first, otherUsers holds exactly the second.
RosterWithLocalAndOther ==
    \E c \in Clients :
        /\ Len(allUsers[c]) = Cardinality(Clients)
        /\ LocalUser(c) # NoUser
        /\ Len(OtherUsers(c)) = Cardinality(Clients) - 1
        /\ \A i \in 1..Len(OtherUsers(c)) : OtherUsers(c)[i].by # c

\* C21 - when the presence hook's effect attaches its listener to an object
\* that is already started, the same step sets allUsers to the roster the
\* object holds, starts nothing and broadcasts nothing.
PresenceJoinerRule ==
    [][\A c \in Clients :
          (~listeningRef[c][PresenceKind] /\ listeningRef'[c][PresenceKind]
              /\ inst[c][PresenceKind].isInitialized) =>
                  /\ allUsers'[c] =
                        RosterList(c, wire, got[c], gen[c][PresenceKind])
                  /\ wire' = wire
                  /\ inst'[c] = inst[c]]_vars

\* A component has mounted the presence hook on a client whose object is
\* already started and holds the user's updated record; its effect is about
\* to attach the listener, and the hook's own roster is still empty.
JoinerBeforeAttach ==
    \E c \in Clients :
        /\ hooked[c][PresenceKind] /\ ~listeningRef[c][PresenceKind]
        /\ inst[c][PresenceKind].isInitialized
        /\ allUsers[c] = <<>>
        /\ \E i \in 1..Len(RosterList(c, wire, got[c], gen[c][PresenceKind])) :
              RosterList(c, wire, got[c], gen[c][PresenceKind])[i].st = "offline"

\* The announcement of user u on the instance client d is on has not been
\* delivered to d yet, and d listens.
AnnouncementInFlight(d, u) ==
    /\ listeningRef[d][PresenceKind]
    /\ \E n \in (got[d] + 1)..Len(wire) :
          wire[n] = Announcement(u, gen[d][PresenceKind])

\* User u has announced itself on the instance client d is on.
Announced(d, u) ==
    \E n \in 1..Len(wire) : wire[n] = Announcement(u, gen[d][PresenceKind])

\* C22 - the record a client publishes when it starts the presence object
\* reaches the listeners: a listening client to which the announcement of a
\* user on its instance is still in flight eventually lists that user (or
\* stops listening or moves to another instance); the step that delivers
\* the announcement to a listening client leaves the user's record with the
\* announced state and data in that client's roster; and a listening client
\* whose object is started eventually has its own record as localUser.
PresenceAnnounce ==
    /\ \A d \in Clients : \A u \in Clients \ {d} :
          AnnouncementInFlight(d, u) ~>
              \/ RecordsOf(d, u) # {}
              \/ ~listeningRef[d][PresenceKind]
              \/ ~Announced(d, u)
    /\ [][\A d \in Clients, u \in Clients :
            (/\ listeningRef[d][PresenceKind]
             /\ got'[d] = got[d] + 1
             /\ wire[got[d] + 1] = Announcement(u, gen[d][PresenceKind])) =>
                \E i \in 1..Len(allUsers'[d]) :
                    allUsers'[d][i] =
                        [by |-> u, val |-> 0, st |-> "online",
                         isLocalUser |-> u = d]]_vars
    /\ \A c \in Clients :
          ObjectStarted(c, PresenceKind) ~>
              (LocalUser(c).by = c \/ ~listeningRef[c][PresenceKind])

\* A client started the presence object while the other client was already
\* listening; the other client lists it with the announced state and the
\* starting client has its own record as localUser.
AnnouncementReachedListener ==
    \E c \in Clients : \E d \in Clients \ {c} :
        /\ \E n \in 1..Len(wire) : \E k \in (n + 1)..Len(wire) :
              /\ wire[n] = Announcement(d, gen[d][PresenceKind])
              /\ wire[k] = Announcement(c, gen[d][PresenceKind])
        /\ listeningRef[d][PresenceKind]
        /\ \E i \in RecordsOf(d, c) :
              allUsers[d][i].st = "online" /\ ~allUsers[d][i].isLocalUser
        /\ listeningRef[c][PresenceKind]
        /\ LocalUser(c).by = c

\* C23 - between the begin of a client's suspension and its endSuspension()
\* no group command is applied to the client's local player, and the
\* endSuspension() call ends the suspension and puts the player to the
\* group's latest command, commands that arrived during the suspension
\* included.
SuspensionIsolation ==
    [][\A c \in Clients :
          /\ (active[c] /\ active'[c]) => player'[c] = player[c]
          /\ (~endCalled[c] /\ endCalled'[c]) =>
                (~active'[c] /\ player'[c] = Reconcile(c))]_vars

\* What holds of C23: while the suspension is active no step changes the
\* local player, and a step that ends the suspension puts the player to the
\* group's latest command that has reached the client.
IsolatedWhileSuspended ==
    [][\A c \in Clients :
          /\ (active[c] /\ active'[c]) => player'[c] = player[c]
          /\ (active[c] /\ ~active'[c]) => player'[c] = Reconcile(c)]_vars

\* A suspended client that is no spectator has been delivered another
\* client's command and its player has not been put to it.
CommandHeldBack ==
    \E c \in Clients :
        /\ active[c] /\ ~viewOnly[c]
        /\ seen[c] = Len(commands) /\ Len(commands) > 0
        /\ commands[Len(commands)].by # c
        /\ player[c] # commands[Len(commands)]

\* C24 - suspension filters only the suspended client's inbound commands:
\* a step that begins or ends a client's suspension changes no other
\* client's player and no command; every synchronizing client, suspended or
\* not, can still issue a command; and a command delivered to a client that
\* is neither suspended nor a spectator is applied to its player whoever is
\* suspended.
SuspensionLocalFilter ==
    [][/\ \A c \in Clients :
            active'[c] # active[c] =>
                /\ commands' = commands
                /\ \A d \in Clients \ {c} : player'[d] = player[d]
       /\ \A c \in Clients :
            (synchronizer[c] /\ Len(commands) < MaxCommands) =>
                ENABLED Command(c, "pause")
       /\ \A d \in Clients :
            (seen'[d] = seen[d] + 1 /\ synchronizer[d]
               /\ ~active[d] /\ ~viewOnly[d]) =>
                player'[d] = commands[seen'[d]]]_vars

\* A suspended client's own command has been delivered to it without being
\* applied, and the other client, not suspended, has applied it.
SuspendedClientCommandApplied ==
    \E c \in Clients : \E d \in Clients \ {c} :
        /\ active[c] /\ ~viewOnly[c]
        /\ Len(commands) > 0 /\ seen[c] = Len(commands)
        /\ commands[Len(commands)].by = c
        /\ player[c] # commands[Len(commands)]
        /\ ~active[d] /\ player[d] = commands[Len(commands)]

\* C25 - a client whose viewOnly flag is set has its player changed by no
\* step while the flag stays set, neither by a delivered group command,
\* suspended or not, nor by the end of its suspension; and it can still
\* issue commands, which the other clients are delivered.
ViewOnlyIgnoresGroup ==
    [][\A c \in Clients :
          /\ (viewOnly[c] /\ viewOnly'[c]) => player'[c] = player[c]
          /\ (synchronizer[c] /\ viewOnly[c]
                /\ Len(commands) < MaxCommands) =>
                ENABLED Command(c, "play")]_vars

\* A spectator, not suspended, has been delivered every command, its own
\* last one included, and its player was never put to one, while the other
\* client follows the spectator's command.
SpectatorCommandFollowed ==
    \E c \in Clients : \E d \in Clients \ {c} :
        /\ synchronizer[c] /\ viewOnly[c] /\ ~active[c]
        /\ Len(commands) > 0 /\ seen[c] = Len(commands)
        /\ commands[Len(commands)].by = c
        /\ player[c] = NoCommand
        /\ player[d] = commands[Len(commands)]

\* C26 - the hook's suspended flag is true in exactly the states where the
\* client has an active suspension, one begun and not yet ended.
SuspendedFlagExact ==
    \A c \in Clients : suspension[c] <=> active[c]

\* Promises whose transport call has thrown, and the calls the provider made
\* on its own.
FailedCalls == {n \in DOMAIN promises : promises[n].transport = "failed"}
OwnCalls == {n \in DOMAIN promises : promises[n].by = "provider"}
FailsNow(n) ==
    /\ n \in DOMAIN promises
    /\ promises[n].transport # "failed"
    /\ promises'[n].transport = "failed"

\* C27 - when the transport rejects getContainer, createContainer or
\* joinContainer, the returned promise rejects with the transport's error
\* and the provider's joinError becomes that error; while no call has
\* succeeded the container stays undefined and no hook registers; the
\* provider makes at most one call on its own.
JoinFailureSurfaced ==
    /\ [][\A n \in DOMAIN promises' :
            FailsNow(n) =>
                /\ promises'[n].status = "rejected"
                /\ promises'[n].error = promises'[n].terror
                /\ joinError' = promises'[n].terror]_vars
    /\ [](/\ results <=> \E n \in DOMAIN promises :
                            promises[n].transport = "done"
          /\ ddsEffect => results
          /\ Cardinality(OwnCalls) <= 1)

\* What holds of C27: a promise whose transport call throws is rejected, with
\* the transport's error unless it was rejected before the call; joinError
\* becomes the error when FluidContextProvider's call throws an Error and
\* when the call LiveShareContextProvider made on its own rejects with an
\* Error thrown by the transport; the container is defined only after a
\* call succeeded, a hook registers only then, and the provider makes at
\* most one call on its own.
JoinFailureRejects ==
    /\ [][\A n \in DOMAIN promises' :
            FailsNow(n) =>
                /\ promises'[n].status = "rejected"
                /\ promises[n].status = "pending" =>
                      promises'[n].error = promises'[n].terror
                /\ ( /\ promises'[n].terror.isError
                     /\ \/ provider.kind = "fluid"
                        \/ /\ promises[n].by = "provider"
                           /\ promises[n].status = "pending" ) =>
                      joinError' = promises'[n].terror]_vars
    /\ [](/\ results <=> \E n \in DOMAIN promises :
                            promises[n].transport = "done"
          /\ ddsEffect => results
          /\ Cardinality(OwnCalls) <= 1)

\* The provider's own call and a later call of the application were both
\* rejected by the transport: both promises are rejected with the
\* transport's error, joinError is set, no container, no hook registered.
BothCallsFailed ==
    /\ Cardinality(FailedCalls) = 2 /\ Cardinality(OwnCalls) = 1
    /\ \A n \in FailedCalls :
          /\ promises[n].status = "rejected"
          /\ promises[n].error = promises[n].terror
    /\ joinError.src = "transport"
    /\ ~results /\ ~ddsEffect

\* Instances consumer i of client c has created for key k: those whose
\* creation is in flight and those whose handle write is sequenced.
CreatedBy(c, k, i) ==
    LET mine == {p \in BagToSet(pending[c]) : p.key = k /\ p.by = i}
    IN BagCardinality([p \in mine |-> CopiesIn(p, pending[c])])
       + Cardinality({n \in DOMAIN log :
             log[n].writer = c /\ log[n].key = k /\ log[n].by = i})

\* C28 - onFirstCreate runs only on creation: every instance a client
\* created was created because the client's replica had no entry for the
\* key, onFirstCreate has run on a client exactly once for each instance
\* the client created and for no other, so a client that obtained the
\* instance from the map has seeded nothing.
OnFirstCreateOnlyOnCreation ==
    /\ \A c \in Clients : \A p \in BagToSet(pending[c]) : p.saw = 0
    /\ \A n \in DOMAIN log : log[n].saw = 0
    /\ \A c \in Clients : \A k \in Keys : \A i \in Comps :
          CopiesIn([key |-> k, by |-> i], seeded[c]) = CreatedBy(c, k, i)

\* Two clients raced for a key and each seeded its own instance; the hook of
\* one of them now holds the canonical instance, which the other created
\* and seeded, and a hook that mounted later obtained it without seeding.
SeededCandidateAbandoned ==
    \E c \in Clients : \E d \in Clients \ {c} : \E k \in Keys :
        /\ Canonical(k) # 0
        /\ log[Canonical(k)].writer = d
        /\ seeded[c] # EmptyBag /\ seeded[d] # EmptyBag
        /\ \E i \in Comps : keyOf[c][i] = k /\ dds[c][i] = Canonical(k)
        /\ \E i \in Comps :
              /\ keyOf[c][i] = k /\ dds[c][i] = Canonical(k)
              /\ CopiesIn([key |-> k, by |-> i], seeded[c]) = 0

\* A creation of client c is in flight whose consumer has unregistered, and
\* a broadcast not yet delivered to client d whose sender's hook is gone.
CreationOrphaned(c) ==
    \E p \in BagToSet(pending[c]) : ~mounted[c][p.by]
BroadcastOrphaned(d) ==
    \E n \in (got[d] + 1)..Len(wire) :
        wire[n].kind = EventKind /\ ~hooked[wire[n].by][EventKind]

NoClientWaitsOnAnother ==
    \A i \in Comps :
        Registered(Self, i) ~> (~Registered(Self, i) \/ dds[Self][i] # 0)

\* The client's consumer holds the instance the client created while another
\* client's creation for the same key is still in flight.
ResolvedWhilePeerCreates ==
    \E i \in Comps : \E d \in Clients \ {Self} :
        /\ Registered(Self, i)
        /\ dds[Self][i] # 0
        /\ log[dds[Self][i]].writer = Self
        /\ \E p \in BagToSet(pending[d]) : p.key = keyOf[Self][i]

\* C31 - the map of useSharedMap mirrors the SharedMap: while no listener
\* is attached map is the map built from initialData; while one is
\* attached map is the entries of the instance it is on; a setEntry or
\* deleteEntry call of an unresolved hook changes no operation and no map,
\* and a call of a resolved hook makes one operation, changes no other
\* client's map and changes the caller's map only when the caller listens
\* on the instance written to.
SharedMapMirror ==
    /\ [](\A c \in Clients :
            /\ (mapHook[c] /\ mapListening[c] = {}) => map[c] = initialData[c]
            /\ \A h \in mapListening[c] :
                  map[c] = Entries(c, h, mapOps, mapGot[c]))
    /\ [][\A c \in Clients :
            mapCalls'[c] > mapCalls[c] =>
                IF sharedMap[c] = 0
                THEN mapOps' = mapOps /\ map' = map
                ELSE /\ Len(mapOps') = Len(mapOps) + 1
                     /\ \A d \in Clients \ {c} : map'[d] = map[d]
                     /\ sharedMap[c] \notin mapListening[c] => map'[c] = map[c]]_vars

\* One client deleted an entry; the other client, which listens on the same
\* instance and was mounted with that entry as initialData, has been
\* notified and shows no entry.
MirrorFollowedDelete ==
    \E c \in Clients : \E d \in Clients \ {c} :
        /\ mapListening[c] # {} /\ mapListening[d] = mapListening[c]
        /\ initialData[d]["x"] # 0
        /\ mapOps # <<>>
        /\ mapOps[Len(mapOps)].by = c /\ mapOps[Len(mapOps)].val = Deleted
        /\ mapGot[d] = Len(mapOps)
        /\ map[d]["x"] = 0 /\ map[c]["x"] = 0

\* The key the caller gave, or the default.
CallerKey(n) == IF n.given THEN n.arg ELSE DefaultKey

\* C32 - key namespacing: the registry key of every hook is its type tag,
\* ":" and the caller's key (the default one of the presence hook included),
\* and two hooks of different object types never have the same registry key.
KeyNamespacing ==
    /\ \A c \in Clients :
          named[c] # NoName =>
              named[c].key = <<TypeTag(named[c].hook)>> \o CallerKey(named[c])
    /\ \A c \in Clients, d \in Clients :
          ( /\ named[c] # NoName /\ named[d] # NoName
            /\ TypeTag(named[c].hook) # TypeTag(named[d].hook) ) =>
              named[c].key # named[d].key

\* What holds of C32: the same for the hooks that form the key by prefixing.
KeyNamespacingPrefixed ==
    /\ \A c \in Clients :
          (named[c] # NoName /\ named[c].hook # "useEphemeralPresence ??") =>
              named[c].key = <<TypeTag(named[c].hook)>> \o CallerKey(named[c])
    /\ \A c \in Clients, d \in Clients :
          ( /\ named[c] # NoName /\ named[d] # NoName
            /\ named[c].hook # "useEphemeralPresence ??"
            /\ named[d].hook # "useEphemeralPresence ??"
            /\ TypeTag(named[c].hook) # TypeTag(named[d].hook) ) =>
              named[c].key # named[d].key

\* Two hooks of different types were given the same key, itself one that
\* starts with a type tag, and have different registry keys.
SameCallerKeyApart ==
    \E c \in Clients : \E d \in Clients \ {c} :
        /\ named[c].hook = "useSharedMap"
        /\ named[d].hook = "useEphemeralPresence"
        /\ named[c].given /\ named[d].given
        /\ named[c].arg = <<"<SharedMap>:", "k">>
        /\ named[d].arg = named[c].arg
        /\ named[c].key # named[d].key

\* C33 - the event hook's results: allEvents is the sequence of the
\* notifications its listener received since the component mounted, in the
\* order of delivery, also when the listener moved to a later instance; it
\* only grows by appending; latestEvent is undefined exactly when allEvents
\* is empty and is its last element otherwise.
EventsAsDelivered ==
    /\ [](\A c \in Clients :
            /\ allEvents[c] =
                  [i \in 1..Len(heard[c]) |-> Received(c, heard[c][i])[1]]
            /\ (latestEvent[c] = NoEvent) <=> (allEvents[c] = <<>>)
            /\ allEvents[c] # <<>> =>
                  latestEvent[c] = allEvents[c][Len(allEvents[c])])
    /\ [][\A c \in Clients :
            (hooked[c][EventKind] /\ hooked'[c][EventKind]) =>
                /\ Len(allEvents'[c]) \in {Len(allEvents[c]), Len(allEvents[c]) + 1}
                /\ SubSeq(allEvents'[c], 1, Len(allEvents[c])) = allEvents[c]]_vars

\* A hook holds two events, one received on each of two instances of its
\* key.
EventsAcrossInstances ==
    \E c \in Clients :
        /\ Len(allEvents[c]) = 2
        /\ heard[c][1].on # heard[c][2].on
        /\ latestEvent[c] = allEvents[c][2]

\* Creations in flight that consumer i of client c started.
InFlightBy(c, i) == {p \in BagToSet(pending[c]) : p.by = i}

\* The "connected" listeners are those of mounted components; a component
\* that is not mounted makes no registerDDS call and starts no creation; the
\* "connected" event calls registerDDS once for each waiting component and
\* leaves no listener.
ListenerGoesWithComponent ==
    /\ [](\A c \in Clients : \A i \in connListener[c] : mounted[c][i])
    /\ [][\A c \in Clients, i \in Comps :
            /\ (~mounted[c][i] /\ ~mounted'[c][i]) =>
                  /\ registered'[c][i] = 0
                  /\ \A k \in Keys : regs'[c][k][i] = 0
                  /\ InFlightBy(c, i)' \subseteq InFlightBy(c, i)
            /\ (conn[c] # Connected /\ conn'[c] = Connected) =>
                  /\ connListener'[c] = {}
                  /\ registered'[c][i] =
                        registered[c][i] + (IF i \in connListener[c] THEN 1 ELSE 0)]_vars

\* C34 - unmount before connect: a component that unmounts before its
\* container is Connected takes its "connected" listener with it, so a later
\* connect makes no registerDDSSetStateAction call for it and it never
\* creates a key; the listener is removed once it has fired, and one mount
\* registers at most once.
UnmountBeforeConnect ==
    /\ ListenerGoesWithComponent
    /\ [](\A c \in Clients, i \in Comps : registered[c][i] <= 1)

\* What holds of C34: the same, with at most one registration for each run
\* of the registration effect, and for each mount of a hook whose effect
\* depends on the container alone.
UnmountBeforeConnectPerEffect ==
    /\ ListenerGoesWithComponent
    /\ [](\A c \in Clients, i \in Comps :
            /\ \A k \in Keys : calls[c][k][i] <= 1
            /\ ~HasInitialData(keyOf[c][i]) => registered[c][i] <= 1)

\* A component left while it waited, its container connected afterwards,
\* and the client has registered and created nothing.
LeftBeforeConnect ==
    \E c \in Clients :
        /\ leftWaiting[c]
        /\ conn[c] = Connected
        /\ \A i \in Comps : ~mounted[c][i] /\ registered[c][i] = 0
        /\ pending[c] = EmptyBag
        /\ \A n \in 1..Len(log) : log[n].writer # c

\* C35 - listener hand-over: a hook has at most one change listener over
\* all instances of its object and none when its component is not mounted;
\* when the hook's handle has moved to another instance the listener effect
\* leaves one listener, on that instance; from then on an operation on the
\* instance left behind does not change the hook's state and another
\* client's operation on the new instance, when it changes the replica,
\* does.
ListenerHandOver ==
    /\ [](\A c \in Clients :
            /\ Cardinality(mapListening[c]) <= 1
            /\ ~mapHook[c] => mapListening[c] = {})
    /\ [][\A c \in Clients :
            /\ (mapListening'[c] # mapListening[c] /\ mapHook'[c]) =>
                  mapListening'[c] = {sharedMap[c]}
            /\ (mapGot'[c] = mapGot[c] + 1 /\ mapListening[c] = {sharedMap[c]}) =>
                  LET n == mapGot'[c]
                  IN IF mapOps[n].inst # sharedMap[c]
                     THEN map'[c] = map[c]
                     ELSE (mapOps[n].by # c /\ ~Masked(c, n)) =>
                             map'[c] = Entries(c, sharedMap[c], mapOps, n)]_vars

\* A hook has moved its listener to the second instance; a write another
\* client made on the first instance has reached it and is not in its map.
ListenerOnNewInstance ==
    \E c \in Clients : \E d \in Clients \ {c} :
        /\ sharedMap[c] = 2 /\ mapListening[c] = {2}
        /\ mapOps # <<>>
        /\ mapOps[Len(mapOps)] = [inst |-> 1, key |-> "x", val |-> NewValue, by |-> d]
        /\ mapGot[c] = Len(mapOps)
        /\ map[c]["x"] # NewValue

\* The calls the Teams SDK test of joinContainer rejected.
SdkRejected == {n \in DOMAIN promises : promises[n].error.src = "sdk"}

\* C36 - joinContainer of LiveShareContextProvider with the Teams SDK not
\* initialized (and initializeTeamsSDKIfNeeded not true), or with an
\* app.initialize() that fails: the call rejects with that error, the
\* client's joinContainer is never invoked for it, and so the provider's
\* results stay unset.
SdkFailureStopsJoin ==
    /\ \A n \in SdkRejected :
          /\ promises[n].status = "rejected"
          /\ promises[n].transport = "none"
    /\ results => \E n \in DOMAIN promises \ SdkRejected :
                      promises[n].transport = "done"

\* What holds of C36: such a call is rejected with the SDK's error at once
\* and stays so, whatever the join it may still make does, and only such a
\* call can have made no join.
SdkFailureRejects ==
    /\ [](\A n \in DOMAIN promises :
            /\ n \in SdkRejected => promises[n].status = "rejected"
            /\ promises[n].transport = "none" => n \in SdkRejected)
    /\ [][\A n \in SdkRejected : promises'[n].error = promises[n].error]_vars

\* A call rejected for the SDK went on to join, the join succeeded and the
\* provider has results; the call is still rejected with the SDK's error.
JoinedAfterSdkRejection ==
    \E n \in SdkRejected :
        /\ promises[n].transport = "done"
        /\ promises[n].status = "rejected"
        /\ results

\* The calls made in the step.
NewCalls == {n \in DOMAIN promises' : n \notin DOMAIN promises}

\* C37 - the join or create on load is started at most once per provider,
\* whatever the renders and prop changes; FluidContextProvider starts
\* getContainer only with a containerId and joinOnLoad, createContainer only
\* with no containerId and createOnLoad, never both; once results are set
\* the provider starts no call.
AutoStartOnce ==
    /\ [](Cardinality(OwnCalls) <= 1)
    /\ [][\A n \in NewCalls :
            promises'[n].by = "provider" =>
                /\ ~results
                /\ promises'[n].op = "getContainer" =>
                      /\ provider'.kind = "fluid"
                      /\ provider'.props.containerId /\ provider'.props.joinOnLoad
                /\ promises'[n].op = "createContainer" =>
                      /\ provider'.kind = "fluid"
                      /\ ~provider'.props.containerId
                      /\ provider'.props.createOnLoad
                /\ promises'[n].op = "joinContainer" =>
                      /\ provider'.kind = "liveShare"
                      /\ provider'.props.joinOnLoad]_vars

\* A provider that mounted without anything to start was later given a
\* containerId and joinOnLoad, and has started nothing.
PropsChangedAfterStart ==
    /\ provider.kind = "fluid"
    /\ provider.props.containerId /\ provider.props.joinOnLoad
    /\ startedRef
    /\ ~results
    /\ promises = <<>>

\* The cleanup of the media hook's effect runs in the step: the component
\* unmounts or its session handle changes while the effect is attached.
CleanupRuns(c) ==
    /\ msAttached[c] # 0
    /\ ~msHook'[c].mounted \/ msHandle'[c] # msHandle[c]

\* C38 - media hook cleanup frame: when the component unmounts or its session
\* handle changes, the hook's own synchronizer is ended and its listening
\* flag reset, and the listeners other consumers registered on the same
\* session instance stay in place.
MediaCleanupFrame ==
    [][\A c \in Clients :
        CleanupRuns(c) =>
            LET g == msAttached[c]
            IN /\ msSession'[c][g].live = msSession[c][g].live - 1
               /\ msAttached'[c] # g
               /\ msSession'[c][g].listeners = msSession[c][g].listeners]_vars

\* What holds of C38: the cleanup ends the hook's own synchronizer, resets
\* the listening flag and leaves the other instance of the key as it was,
\* unless the effect runs on it in the same step.
MediaCleanupOwn ==
    [][\A c \in Clients :
        CleanupRuns(c) =>
            LET g == msAttached[c]
            IN /\ msSession'[c][g].live = msSession[c][g].live - 1
               /\ msSession'[c][g].live = 0
               /\ msAttached'[c] # g
               /\ \A o \in SessionInsts \ {g} :
                     o # msAttached'[c] => msSession'[c][o] = msSession[c][o]]_vars

\* Another consumer's listener is on the session instance the hook is
\* attached to.
SharedSessionInstance ==
    \E c \in Clients :
        /\ msAttached[c] # 0
        /\ "other" \in msSession[c][msAttached[c]].listeners

\* The media hook's effect attaches to an instance in the step.
Attaches(c) == msAttached'[c] # 0 /\ msAttached'[c] # msAttached[c]

\* C39 - media attach branch: attaching to a session that is not started
\* starts it exactly once with allowedRoles (the empty list when none is
\* given) and issues no setTrack; attaching to a started session calls no
\* start and issues exactly one setTrack(initialTrack) when initialTrack is
\* not null; a session instance has at most one synchronizer of the hook.
MediaAttachBranch ==
    /\ [][\A c \in Clients :
            Attaches(c) =>
                LET g == msAttached'[c]
                    h == msHook[c]
                IN IF ~msSession[c][g].started
                   THEN /\ msStarts'[c] =
                              Append(msStarts[c],
                                     [inst |-> g,
                                      roles |-> IF h.given THEN h.roles ELSE {}])
                        /\ msTracks'[c] = msTracks[c]
                   ELSE /\ msStarts'[c] = msStarts[c]
                        /\ msTracks'[c] =
                              IF h.track # "null"
                              THEN Append(msTracks[c], [inst |-> g, track |-> h.track])
                              ELSE msTracks[c]]_vars
    /\ [](\A c \in Clients, g \in SessionInsts : msSession[c][g].live <= 1)

\* C39 as the code has it: the setTrack of a started session is issued when
\* initialTrack is a non-empty string or a metadata object with a
\* trackIdentifier, and for no other initialTrack.
MediaAttachBranchTruthy ==
    /\ [][\A c \in Clients :
            Attaches(c) =>
                LET g == msAttached'[c]
                    h == msHook[c]
                IN IF ~msSession[c][g].started
                   THEN /\ msStarts'[c] =
                              Append(msStarts[c],
                                     [inst |-> g,
                                      roles |-> IF h.given THEN h.roles ELSE {}])
                        /\ msTracks'[c] = msTracks[c]
                   ELSE /\ msStarts'[c] = msStarts[c]
                        /\ msTracks'[c] =
                              IF h.track \in {"src", "metadata"}
                              THEN Append(msTracks[c], [inst |-> g, track |-> h.track])
                              ELSE msTracks[c]]_vars
    /\ [](\A c \in Clients, g \in SessionInsts : msSession[c][g].live <= 1)

\* A hook attached to a session another consumer had started: it called no
\* start and issued one setTrack.
AttachedToStartedSession ==
    \E c \in Clients :
        /\ msAttached[c] # 0
        /\ msStarts[c] = <<>>
        /\ Len(msTracks[c]) = 1

\* The application calls a mutator of the hook of c in the step.
Calls(c) ==
    /\ msHook[c].mounted
    /\ msHook' = msHook
    /\ msSession' = msSession
    /\ ops' # ops

\* C40 - mutators before the synchronizer exists: play, pause, seekTo and
\* setTrack broadcast no command and raise no synchronous exception; play
\* ends in a rejected promise, pause, seekTo and setTrack do nothing.
MutatorsBeforeSynchronizer ==
    [][\A c \in Clients :
        Calls(c) /\ msSync[c] = 0 =>
            /\ msSent'[c] = msSent[c]
            /\ msLast'[c].outcome # "threw"
            /\ msLast'[c].outcome =
                  IF msLast'[c].fn = "play" THEN "rejected" ELSE "noop"]_vars

\* What holds of C40: before the synchronizer exists no mutator broadcasts a
\* command, play ends in a rejected promise, pause and seekTo do nothing, and
\* setTrack does nothing only for an object without a trackIdentifier: for
\* null, a metadata object or a string it raises synchronously.
MutatorsBeforeSynchronizerThrow ==
    [][\A c \in Clients :
        Calls(c) /\ msSync[c] = 0 =>
            /\ msSent'[c] = msSent[c]
            /\ msLast'[c].outcome =
                  CASE msLast'[c].fn = "play" -> "rejected"
                    [] msLast'[c].fn \in {"pause", "seekTo"} -> "noop"
                    [] msLast'[c].fn = "setTrack" ->
                          IF msLast'[c].track = "partial" THEN "noop" ELSE "threw"]_vars

\* setTrack with a track identifier was called on a mounted hook that has no
\* synchronizer, and raised.
SetTrackWithoutSynchronizer ==
    \E c \in Clients :
        /\ msHook[c].mounted
        /\ msSync[c] = 0
        /\ msLast[c].fn = "setTrack"
        /\ msLast[c].track = "src"
        /\ msLast[c].outcome = "threw"

====
